---- MODULE Spec2Model ----
(***************************************************************************)
(* Batch ingestion pipeline of the TikToker plugin: the batch orchestrator *)
(* (processBulkTikToks), the per-item pipeline (expandUrl ->               *)
(* fetchTikTokData -> createTikTokNote), the single-item flow and the      *)
(* results collaborator (BulkResultsModal).                                *)
(*                                                                         *)
(* JavaScript runs one task at a time: the code between two awaited I/O    *)
(* operations is one atomic step.  A pipeline is therefore a record that   *)
(* names the I/O operation it is suspended on ("stage"); an action resumes *)
(* it with the outcome of that operation and runs it to its next           *)
(* suspension or to its return.                                            *)
(***************************************************************************)
EXTENDS Integers, Sequences, FiniteSets, TLC

\* ------------------------------------------------------------- bounds
MaxUrls == 2          \* longest worklist handed to processBulkTikToks
MaxRequeueCount == 3  \* the requeue counter saturates here (observer only)

Min(a, b) == IF a < b THEN a ELSE b

\* ------------------------------------------------------------- URLs
\* The URLs of the model and what the code's string tests see in them.
\*   v1  https://www.tiktok.com/@a/video/<19-digit id, timestamp in range>
\*   p1  https://www.tiktok.com/@a/photo/<id>
\*   s1  https://vm.tiktok.com/<code>
Urls == {"v1", "p1", "s1"}

UrlShape ==
  [u \in Urls |->
     CASE u = "v1" -> [short |-> FALSE, handle |-> "a",  seg |-> "video", id |-> "idGood"]
       [] u = "p1" -> [short |-> FALSE, handle |-> "a",  seg |-> "photo", id |-> "idGood"]
       [] u = "s1" -> [short |-> TRUE,  handle |-> "",   seg |-> "",      id |-> ""]]

\* What a followed redirect of a short link can end at (response.url).
RedirectTargets == {"v1"}

null == "null"

\* Mutant of IsShortLink: every url is taken for a short link.
IsShortLink_Always(url) == TRUE

\* url.includes('vm.tiktok.com') || url.includes('tiktok.com/t/')
IsShortLink(url) == UrlShape[url].short

\* url.includes('/photo/')
IncludesPhoto(url) == UrlShape[url].seg = "photo"

\* url.match(/\/video\/(\d+)/)
extractVideoId(url) ==
  IF UrlShape[url].seg = "video" THEN UrlShape[url].id ELSE null

\* url.match(/@([^\/]+)/)  ->  `@${match[1]}` or 'Unknown'
extractAuthorFromUrl(url) ==
  IF UrlShape[url].handle # "" THEN "@a" ELSE "Unknown"

\* authorWithAt.replace('@', '')
StripAt(author) == IF author = "@a" THEN "a" ELSE author

\* videoId && videoId.length >= 19 && 1262304000 < (id >> 32) < 1893456000
IdDecodes(videoId) == videoId = "idGood"

\* ------------------------------------------------------------- state
VARIABLES
  settings,         \* this.settings (the fields the pipeline reads)
  isMobile,         \* Platform.isMobile
  files,            \* the vault: path -> content, for the paths that hold a file
  folderExists,     \* getAbstractFileByPath(settings.outputFolder) is not null
  urls,             \* processBulkTikToks: the urls argument
  processingQueue,  \* processBulkTikToks: processingQueue
  results,          \* processBulkTikToks: results
  processed,        \* processBulkTikToks: processed
  pc,               \* where processBulkTikToks stands
  cur,              \* the attempt the loop awaits (processUrlPromise), when pc = "await"
  abandoned,        \* attempts that lost Promise.race and still run
  single,           \* the single-item flow (processTikTokUrl)
  modal,            \* BulkResultsModal: duplicates list, open flag, the action in progress
  picker,           \* the url-selection prompt (BulkProcessingModal or MultiUrlModal)
  disc,             \* url discovery: the clipboard text and what each call returned
  tagging,          \* a metadata answer's title and the hashtags of the record built from it
  naming,           \* a record put to generateFileName under a naming pattern
  dating,           \* a call of extractTikTokPostedDate: its identifier and what it did
  noticeThrows,     \* environment: constructing handlePrivateVideo's Notice throws
  obs               \* observers: counters of what happened (not program state)

vars == <<settings, isMobile, files, folderExists, urls, processingQueue, results,
          processed, pc, cur, abandoned, single, modal, picker, disc, tagging, naming,
          dating, noticeThrows, obs>>

PrivatePolicies == {"create-empty", "skip", "show-error"}

\* DEFAULT_SETTINGS.urlTimeout, and values the settings tab's slider can set
\* (setLimits(5, 30, 1)).
DefaultUrlTimeout == 10
UrlTimeouts == {5, DefaultUrlTimeout, 30}

\* ------------------------------------------------------------- dates
\* A Date is named by the day it holds; the YYYY-MM-DD text of a valid Date is
\* that name.  "fromId" is the day in the identifier's upper 32 bits,
\* "lastModified" the day of a parseable last-modified header, "today" the clock.
InvalidDate == "Invalid Date"

\* new Date().toISOString().split('T')[0]
Today == "today"

\* new Date(lastModified): a header that does not parse gives an Invalid Date.
ParseHeaderDate(header) == IF header = "lastModified" THEN "lastModified" ELSE InvalidDate

\* Mutant of ToIsoDay: an Invalid Date is rendered instead of throwing.
ToIsoDay_Unchecked(date) == [threw |-> FALSE, text |-> date]

\* date.toISOString().split('T')[0]: toISOString throws a RangeError on an
\* Invalid Date.
ToIsoDay(date) ==
  IF date = InvalidDate THEN [threw |-> TRUE, text |-> ""]
  ELSE [threw |-> FALSE, text |-> date]

\* extractTikTokPostedDate after its HEAD request: the header's day if there is
\* a header and it renders; the inner catch and a missing header fall through
\* to the current date.
PostedFromHead(kind) ==
  IF kind \in {"lastModified", "badHeader"}
  THEN LET r == ToIsoDay(ParseHeaderDate(kind))
       IN IF r.threw THEN Today ELSE r.text
  ELSE Today

NoName == <<>>
NoData == [author |-> "", description |-> "", url |-> "", videoId |-> null,
           createdDate |-> "", postedDate |-> "", oembedFailed |-> FALSE,
           isSlideshow |-> FALSE, isPrivate |-> FALSE, isNull |-> TRUE]

\* A pipeline that is not running.  `then` is what the caller does with the
\* resolved record: "note" (createTikTokNote), or the results collaborator's
\* "replace" / "duplicate" / "skip"; "resolve" stands for a bare call of
\* fetchTikTokData, whose returned record is kept at stage "resolved".
Idle == [url |-> "", bulk |-> FALSE, then |-> "note", stage |-> "idle", u |-> "",
         branch |-> "", vid |-> null, data |-> NoData, path |-> <<>>, late |-> "none"]

\* ------------------------------------------------------------- records
\* Mutant of handlePrivateVideo: the 'skip' case is missing and falls through to
\* the default.
handlePrivateVideo_NoSkip(u, vid, posted, policy) ==
  [author |-> extractAuthorFromUrl(u),
   description |-> IF policy = "show-error"
                   THEN "Private TikTok Video - Access Denied"
                   ELSE "Private TikTok Video",
   url |-> u, videoId |-> vid, createdDate |-> Today, postedDate |-> posted,
   oembedFailed |-> TRUE, isSlideshow |-> FALSE, isPrivate |-> TRUE,
   isNull |-> FALSE]

\* handlePrivateVideo: switch (this.settings.handlePrivateVideos).
handlePrivateVideo(u, vid, posted, policy) ==
  IF policy = "skip" THEN NoData
  ELSE [author |-> extractAuthorFromUrl(u),
        description |-> IF policy = "show-error"
                        THEN "Private TikTok Video - Access Denied"
                        ELSE "Private TikTok Video",
        url |-> u, videoId |-> vid, createdDate |-> Today, postedDate |-> posted,
        oembedFailed |-> TRUE, isSlideshow |-> FALSE, isPrivate |-> TRUE,
        isNull |-> FALSE]

\* The object literal each branch of the resolver returns.  A field the literal
\* leaves undefined (isSlideshow, isPrivate) is FALSE: the code only tests it.
BuildRecord(branch, u, vid, posted, policy) ==
  CASE branch = "primary" ->
         [author |-> "A", description |-> "T", url |-> u, videoId |-> vid,
          createdDate |-> Today, postedDate |-> posted, oembedFailed |-> FALSE, isSlideshow |-> FALSE,
          isPrivate |-> FALSE, isNull |-> FALSE]
    [] branch = "fallback" ->
         [author |-> StripAt(extractAuthorFromUrl(u)),
          description |-> IF IncludesPhoto(u) THEN "TikTok Photo Slideshow" ELSE "TikTok Post",
          url |-> u, videoId |-> vid, createdDate |-> Today, postedDate |-> posted, oembedFailed |-> TRUE,
          isSlideshow |-> IncludesPhoto(u), isPrivate |-> FALSE, isNull |-> FALSE]
    [] branch = "slideshow" ->
         [author |-> StripAt(extractAuthorFromUrl(u)),
          description |-> "TikTok Photo Slideshow", url |-> u, videoId |-> vid,
          createdDate |-> Today, postedDate |-> posted, oembedFailed |-> FALSE, isSlideshow |-> TRUE,
          isPrivate |-> FALSE, isNull |-> FALSE]
    [] branch = "mobile" ->
         [author |-> StripAt(extractAuthorFromUrl(u)),
          description |-> "TikTok from @a", url |-> u, videoId |-> vid,
          createdDate |-> Today, postedDate |-> posted, oembedFailed |-> TRUE, isSlideshow |-> FALSE,
          isPrivate |-> FALSE, isNull |-> FALSE]
    [] branch = "private" -> handlePrivateVideo(u, vid, posted, policy)

\* (data.author || 'unknown').replace(/[@#]/g, '')
StripMarkers(author) == IF author = "@a" THEN "a" ELSE author

\* fileNamingPattern 'TikTok by {{author}} on {{description}}': the name is fixed
\* by the two substituted values.
generateFileName(data) == <<StripMarkers(data.author), data.description>>

\* `${folderPath}/${fileName}.md`, and `${fileName}-${counter}` for counter >= 1.
FilePath(fileName, counter) == <<fileName, counter>>

\* The content written: what generateNoteContent renders depends on the record.
generateNoteContent(data) == <<data.url, data.description>>

\* ------------------------------------------------------------- pipeline steps
\* What a pipeline hands back when it is resumed: either it is suspended again
\* (ret = "none", p the suspended pipeline), or it returned val, or it threw msg.
\* net and fs count the network requests and file-store operations it issued,
\* prompts the duplicate prompts it opened, notice the last notice it showed.
NoResult == [success |-> FALSE, duplicate |-> FALSE, fileName |-> NoName,
             oembedFailed |-> FALSE, isSlideshow |-> FALSE, isPrivate |-> FALSE]

Fx(fls, fld) ==
  [files |-> fls, folder |-> fld, net |-> 0, fs |-> 0, prompts |-> 0, notice |-> ""]

Running(p, x)   == [ret |-> "none",   p |-> p,    val |-> NoResult, msg |-> "", x |-> x]
Returned(v, x)  == [ret |-> "return", p |-> Idle, val |-> v,        msg |-> "", x |-> x]
Thrown(m, x)    == [ret |-> "throw",  p |-> Idle, val |-> NoResult, msg |-> m,  x |-> x]

Net(x)    == [x EXCEPT !.net = @ + 1]
FsOp(x)   == [x EXCEPT !.fs = @ + 1]
Prompt(x) == [x EXCEPT !.prompts = @ + 1]

\* Mutant of NoticeUnlessBulk: the isBulkProcessing test is missing.
NoticeUnlessBulk_Always(p, text, x) == [x EXCEPT !.notice = text]

\* if (!isBulkProcessing) new Notice(text)
NoticeUnlessBulk(p, text, x) == IF p.bulk THEN x ELSE [x EXCEPT !.notice = text]

\* processTikTokUrlBulk: { ...result, oembedFailed, isSlideshow, isPrivate }
WithFlags(res, data) ==
  [res EXCEPT !.oembedFailed = data.oembedFailed, !.isSlideshow = data.isSlideshow,
              !.isPrivate = data.isPrivate]

\* Mutant of FirstFree: the loop's existence test is missing, the first
\* candidate is taken.
FirstFree_NoProbe(fileName, counter, fls) == counter

\* do { newFileName = `${fileName}-${counter}`; counter++ } while (path exists)
RECURSIVE FirstFree(_, _, _)
FirstFree(fileName, counter, fls) ==
  IF FilePath(fileName, counter) \in DOMAIN fls
  THEN FirstFree(fileName, counter + 1, fls)
  ELSE counter

\* await this.app.vault.create(filePath, noteContent): the request is issued.
IssueCreate(p, path, x) == Running([p EXCEPT !.stage = "create", !.path = path], FsOp(x))

\* Mutant of AfterFolder: the isBulkProcessing test is missing, the prompt is
\* opened in batch mode too.
AfterFolder_AlwaysPrompts(p, x) ==
  LET fileName == generateFileName(p.data)
      filePath == FilePath(fileName, 0)
  IN IF filePath \in DOMAIN x.files
     THEN Running([p EXCEPT !.stage = "prompt", !.path = filePath], Prompt(x))
     ELSE IssueCreate(p, filePath, x)

\* createTikTokNote, from the existence check to its next await.
AfterFolder(p, x) ==
  LET fileName == generateFileName(p.data)
      filePath == FilePath(fileName, 0)
  IN IF filePath \in DOMAIN x.files
     THEN IF p.bulk
          THEN Returned(WithFlags([NoResult EXCEPT !.duplicate = TRUE,
                                                   !.fileName = fileName], p.data), x)
          ELSE Running([p EXCEPT !.stage = "prompt", !.path = filePath], Prompt(x))
     ELSE IssueCreate(p, filePath, x)

\* createTikTokNote, from its entry to its first await.  With a null record
\* generateFileName reads data.author of null and throws a TypeError.
EnterCreate(p, data, x) ==
  LET q == [p EXCEPT !.data = data]
  IN IF data.isNull THEN Thrown("TypeError", x)
     ELSE IF ~x.folder
          THEN Running([q EXCEPT !.stage = "mkdir"], FsOp(x))
          ELSE AfterFolder(q, x)

\* await createFolder(folderPath) ended: it is outside the try block.
AfterMkdir(p, o, x) ==
  IF o = "ok" THEN AfterFolder(p, [x EXCEPT !.folder = TRUE])
  ELSE Thrown("createFolder failed", x)

\* Mutant of AfterPrompt: 'skip' removes the file that is in the way.
AfterPrompt_SkipRemoves(p, action, x) ==
  LET fileName == generateFileName(p.data)
  IN CASE action = "skip" ->
            Returned(NoResult,
                     [x EXCEPT !.files = [q \in DOMAIN x.files \ {p.path} |-> x.files[q]],
                               !.notice = "File creation skipped"])
       [] action = "duplicate" ->
            IssueCreate(p, FilePath(fileName, FirstFree(fileName, 1, x.files)), x)
       [] action = "replace" -> Running([p EXCEPT !.stage = "delete"], FsOp(x))

\* The prompt (handleDuplicateFile) was answered.
AfterPrompt(p, action, x) ==
  LET fileName == generateFileName(p.data)
  IN CASE action = "skip" -> Returned(NoResult, [x EXCEPT !.notice = "File creation skipped"])
       [] action = "duplicate" ->
            IssueCreate(p, FilePath(fileName, FirstFree(fileName, 1, x.files)), x)
       [] action = "replace" -> Running([p EXCEPT !.stage = "delete"], FsOp(x))

\* await vault.delete(existingFile) ended; on success the vault.create of the
\* replace branch is issued.
AfterDelete(p, o, x) ==
  IF o = "ok" /\ p.path \in DOMAIN x.files
  THEN Running([p EXCEPT !.stage = "recreate"],
         FsOp([x EXCEPT !.files = [q \in DOMAIN x.files \ {p.path} |-> x.files[q]]]))
  ELSE Returned(WithFlags(NoResult, p.data), NoticeUnlessBulk(p, "Failed to create note", x))

\* await vault.create(filePath, noteContent) ended.  The store refuses a path
\* that holds a file; the catch block turns a failure into { success: false }.
AfterCreate(p, o, x) ==
  IF o = "ok" /\ p.path \notin DOMAIN x.files
  THEN Returned(WithFlags([NoResult EXCEPT !.success = TRUE,
                                           !.fileName = generateFileName(p.data)], p.data),
                NoticeUnlessBulk(p, IF p.stage = "recreate" THEN "Replaced" ELSE "Created",
                  [x EXCEPT !.files = (p.path :> generateNoteContent(p.data)) @@ x.files]))
  ELSE Returned(WithFlags(NoResult, p.data), NoticeUnlessBulk(p, "Failed to create note", x))

\* ------------------------------------------------------------- results collaborator
\* handleDuplicateAction, action 'replace', after the record is resolved: the
\* file name is rendered again from the new record; nothing here is in a try
\* block of its own, a failing delete or create throws to the handler's catch.
ReplaceEnter(p, data, x) ==
  LET q == [p EXCEPT !.data = data, !.path = FilePath(generateFileName(data), 0)]
  IN IF data.isNull THEN Thrown("TypeError", x)
     ELSE IF q.path \in DOMAIN x.files
          THEN Running([q EXCEPT !.stage = "mdelete"], FsOp(x))
          ELSE Running([q EXCEPT !.stage = "mcreate"], FsOp(x))

AfterModalDelete(p, o, x) ==
  IF o = "ok" /\ p.path \in DOMAIN x.files
  THEN Running([p EXCEPT !.stage = "mcreate"],
               FsOp([x EXCEPT !.files = [q \in DOMAIN x.files \ {p.path} |-> x.files[q]]]))
  ELSE Thrown("delete failed", x)

AfterModalCreate(p, o, x) ==
  IF o = "ok" /\ p.path \notin DOMAIN x.files
  THEN Returned(NoResult,
                [x EXCEPT !.files = (p.path :> generateNoteContent(p.data)) @@ x.files,
                          !.notice = "File replaced"])
  ELSE Thrown("create failed", x)

\* ------------------------------------------------------------- resolver steps
\* The resolver returned its record (or null): processTikTokUrlBulk answers a
\* null record itself, processTikTokUrl hands whatever it got to
\* createTikTokNote, handleDuplicateAction branches on its action.
AfterDate(p, posted, x0) ==
  LET data == BuildRecord(p.branch, p.u, p.vid, posted, settings.handlePrivateVideos)
      \* handlePrivateVideo, case 'show-error'
      x == IF p.branch = "private" /\ settings.handlePrivateVideos = "show-error"
           THEN NoticeUnlessBulk(p, "Cannot access private TikTok video", x0)
           ELSE x0
  IN IF p.branch = "private" /\ settings.handlePrivateVideos = "show-error"
          /\ ~p.bulk /\ noticeThrows
     THEN Thrown("Notice failed", x0)   \* new Notice(...) is in no try block
     ELSE IF p.then = "resolve"
     THEN Running([p EXCEPT !.stage = "resolved", !.data = data], x)
     ELSE IF p.bulk /\ data.isNull
     THEN Returned([NoResult EXCEPT !.isPrivate = TRUE], x)
     ELSE CASE p.then = "replace" -> ReplaceEnter(p, data, x)
            [] p.then = "skip"    -> Returned(NoResult, x)
            [] OTHER              -> EnterCreate(p, data, x)

\* extractTikTokPostedDate: the identifier's timestamp, else a HEAD request for
\* last-modified.
EnterDate(p, branch, vid, x) ==
  LET q == [p EXCEPT !.branch = branch, !.vid = vid]
  IN IF IdDecodes(vid) THEN AfterDate(q, "fromId", x)
     ELSE Running([q EXCEPT !.stage = "date"], Net(x))

\* error.message includes '403' / 'forbidden' / 'private' / ..., or status 403
detectPrivateVideo(o) == o.kind = "http403"

\* fetchTikTokData after the metadata endpoint answered or failed.
AfterOembed(p, o, x) ==
  LET videoId == extractVideoId(p.u)
  IN IF o.kind = "ok"
     THEN EnterDate(p, "primary", IF videoId = null THEN o.htmlId ELSE videoId, x)
     ELSE IF detectPrivateVideo(o)
          THEN EnterDate(p, "private", videoId, x)
          ELSE EnterDate(p, "fallback", videoId,
                 NoticeUnlessBulk(p, "oEmbed failed, using fallback embed method", x))

\* fetchTikTokDataMobile after its own expandUrl.
MobileAfterExpand(p, x) ==
  LET videoId == extractVideoId(p.u)
      author  == StripAt(extractAuthorFromUrl(p.u))
  IN IF IncludesPhoto(p.u) THEN EnterDate(p, "slideshow", videoId, x)
     ELSE IF author = "Unknown" \/ videoId = null
          THEN EnterDate(p, "private", videoId, x)
          ELSE EnterDate(p, "mobile", videoId, x)

\* fetchTikTokData(url) from its entry to its first await.
EnterFetch(p, x) ==
  IF isMobile
  THEN IF IsShortLink(p.u) THEN Running([p EXCEPT !.stage = "expand2"], Net(x))
       ELSE MobileAfterExpand(p, x)
  ELSE IF IncludesPhoto(p.u) THEN EnterDate(p, "slideshow", extractVideoId(p.u), x)
       ELSE Running([p EXCEPT !.stage = "oembed"], Net(x))

\* makeHeadRequest: fetch gives response.url; requestUrl (mobile) gives no final
\* URL and the wrapper answers the request's own url, also when it failed.
\* expandUrl's catch answers the original url.
HeadUrl(url, o) ==
  IF isMobile THEN url
  ELSE IF o.kind = "ok" THEN o.url ELSE url

\* processTikTokUrlBulk / processTikTokUrl / handleDuplicateAction from entry
\* to the first await.
Start(url, bulk, then, x) ==
  LET p == [Idle EXCEPT !.url = url, !.bulk = bulk, !.then = then, !.u = url]
  IN IF IsShortLink(url) THEN Running([p EXCEPT !.stage = "expand"], Net(x))
     ELSE EnterFetch(p, x)

\* The outcomes the environment can give the operation a pipeline waits on.
Outcomes(stage) ==
  CASE stage \in {"expand", "expand2"} ->
         {[kind |-> "ok", url |-> t, htmlId |-> null] : t \in RedirectTargets}
           \cup {[kind |-> k, url |-> "", htmlId |-> null] : k \in {"fail", "abort"}}
    [] stage = "oembed" ->
         {[kind |-> "ok", url |-> "", htmlId |-> h] : h \in {"idGood", null}}
           \cup {[kind |-> k, url |-> "", htmlId |-> null] : k \in {"http403", "http500", "abort"}}
    [] stage = "date" ->
         {[kind |-> k, url |-> "", htmlId |-> null] :
            k \in {"lastModified", "badHeader", "noHeader", "fail"}}
    [] stage \in {"mkdir", "create", "delete", "recreate", "mdelete", "mcreate"} ->
         {[kind |-> k, url |-> "", htmlId |-> null] : k \in {"ok", "fail"}}
    [] stage = "prompt" ->
         {[kind |-> k, url |-> "", htmlId |-> null] : k \in {"replace", "duplicate", "skip"}}
    [] OTHER -> {}

\* Resume pipeline p with outcome o of the operation it waits on.
Resume(p, o, x) ==
  CASE p.stage = "expand"  -> EnterFetch([p EXCEPT !.u = HeadUrl(p.url, o)], x)
    [] p.stage = "expand2" -> MobileAfterExpand([p EXCEPT !.u = HeadUrl(p.u, o)], x)
    [] p.stage = "oembed"  -> AfterOembed(p, o, x)
    [] p.stage = "date"    -> AfterDate(p, PostedFromHead(o.kind), x)
    [] p.stage = "mkdir"   -> AfterMkdir(p, o.kind, x)
    [] p.stage = "prompt"  -> AfterPrompt(p, o.kind, x)
    [] p.stage = "delete"  -> AfterDelete(p, o.kind, x)
    [] p.stage \in {"create", "recreate"} -> AfterCreate(p, o.kind, x)
    [] p.stage = "mdelete" -> AfterModalDelete(p, o.kind, x)
    [] p.stage = "mcreate" -> AfterModalCreate(p, o.kind, x)

\* ------------------------------------------------------------- batch orchestrator
\* One element of processBulkTikToks' results array.
ResultOf(url, v) ==
  [url |-> url, success |-> v.success, duplicate |-> v.duplicate,
   fileName |-> v.fileName, oembedFailed |-> v.oembedFailed,
   isSlideshow |-> v.isSlideshow, isPrivate |-> v.isPrivate, error |-> ""]

\* results.push({ url, success: false, error: error.message })
FailedResult(url, msg) ==
  [url |-> url, success |-> FALSE, duplicate |-> FALSE, fileName |-> NoName,
   oembedFailed |-> FALSE, isSlideshow |-> FALSE, isPrivate |-> FALSE, error |-> msg]

\* The catch block's test: requeue a timed-out url, or record it as failed.
ShouldRequeue(msg, queue) ==
  msg = "Processing timeout" /\ Len(queue) < Len(urls) * 2

\* Mutant of IsFailed: the duplicate test is missing.
IsFailed_WithDuplicates(r) == ~r.success /\ ~r.isPrivate

\* Mutant of Settle: an error that is not requeued leaves the loop (the rest of
\* the queue is dropped).
Settle_ErrorEndsRun(url, ret, val, msg, queue) ==
  IF ret = "return"
  THEN [queue |-> queue, results |-> Append(results, ResultOf(url, val)),
        processed |-> processed + 1, requeued |-> 0]
  ELSE IF ShouldRequeue(msg, queue)
       THEN [queue |-> Append(queue, url), results |-> results,
             processed |-> processed, requeued |-> 1]
       ELSE [queue |-> <<>>, results |-> Append(results, FailedResult(url, msg)),
             processed |-> processed + 1, requeued |-> 0]

\* Mutant of Settle: a timed-out url is put back at the front of the queue.
Settle_RequeueFirst(url, ret, val, msg, queue) ==
  IF ret = "return"
  THEN [queue |-> queue, results |-> Append(results, ResultOf(url, val)),
        processed |-> processed + 1, requeued |-> 0]
  ELSE IF ShouldRequeue(msg, queue)
       THEN [queue |-> <<url>> \o queue, results |-> results,
             processed |-> processed, requeued |-> 1]
       ELSE [queue |-> queue, results |-> Append(results, FailedResult(url, msg)),
             processed |-> processed + 1, requeued |-> 0]

\* Mutant of Settle: a requeued url is recorded as failed as well.
Settle_RequeueAndRecord(url, ret, val, msg, queue) ==
  IF ret = "return"
  THEN [queue |-> queue, results |-> Append(results, ResultOf(url, val)),
        processed |-> processed + 1, requeued |-> 0]
  ELSE [queue |-> IF ShouldRequeue(msg, queue) THEN Append(queue, url) ELSE queue,
        results |-> Append(results, FailedResult(url, msg)),
        processed |-> processed + 1,
        requeued |-> IF ShouldRequeue(msg, queue) THEN 1 ELSE 0]

\* The loop body after the race is decided for url: what the attempt handed
\* back, or "throw" with 'Processing timeout' when the timer won.
Settle(url, ret, val, msg, queue) ==
  IF ret = "return"
  THEN [queue |-> queue, results |-> Append(results, ResultOf(url, val)),
        processed |-> processed + 1, requeued |-> 0]
  ELSE IF ShouldRequeue(msg, queue)
       THEN [queue |-> Append(queue, url), results |-> results,
             processed |-> processed, requeued |-> 1]
       ELSE [queue |-> queue, results |-> Append(results, FailedResult(url, msg)),
             processed |-> processed + 1, requeued |-> 0]

\* showBulkProcessingResults: the six filters over results.
IsSuccessful(r)     == r.success
IsFailed(r)         == ~r.success /\ ~r.duplicate /\ ~r.isPrivate
IsSkippedPrivate(r) == r.isPrivate
IsDuplicate(r)      == r.duplicate
IsOembedFailed(r)   == r.success /\ r.oembedFailed /\ ~r.isSlideshow
IsSlideshowResult(r) == r.success /\ r.isSlideshow

successful(rs)     == SelectSeq(rs, IsSuccessful)
failed(rs)         == SelectSeq(rs, IsFailed)
skippedPrivate(rs) == SelectSeq(rs, IsSkippedPrivate)
duplicates(rs)     == SelectSeq(rs, IsDuplicate)
oembedFailed(rs)   == SelectSeq(rs, IsOembedFailed)
slideshows(rs)     == SelectSeq(rs, IsSlideshowResult)

\* No clipboard text was read.
NoText == [text |-> <<>>, calls |-> <<>>, found |-> <<>>]

\* No title was answered, no record was named, no date was asked for.
NoOutput == [kind |-> "", text |-> <<>>, tags |-> <<>>]

NoTags == [title |-> <<>>, description |-> <<>>, hashtags |-> <<>>, built |-> FALSE,
           renders |-> 0, out |-> NoOutput]
NoNaming == [pattern |-> <<>>, author |-> <<>>, description |-> <<>>, index |-> 0,
             sub |-> <<>>, out |-> <<>>, done |-> FALSE]
NoDating == [seg |-> "", id |-> [hi |-> 0, mid |-> 0], stage |-> "idle",
             posted |-> [by |-> "", day |-> 0], heads |-> 0, last |-> ""]

\* No selection prompt is open.
NoPicker == [kind |-> "none", open |-> FALSE, given |-> <<>>, urls |-> <<>>, checked |-> {},
             called |-> FALSE, arg |-> <<>>]

\* No bulk action of the results collaborator is running.
NoBulk == [action |-> "", rest |-> <<>>]

NoModal == [open |-> FALSE, duplicates |-> <<>>, failed |-> <<>>, job |-> Idle,
            retry |-> <<>>, bulk |-> NoBulk]

\* Observers.  requeued: how often the loop pushed a url back (saturating);
\* tracked: an abandoned attempt of this run is or was followed; summaries:
\* summary notices emitted; notice: the last notice of a single-item or
\* results-collaborator pipeline; last: how the operation the single-item
\* pipeline waited on last ended; timers: the urlTimeout values the run's race
\* timers were armed with; reentries: how often the clipboard action entered
\* processBulkTikToks after the first batch was started.
Obs0 == [requeued |-> 0, tracked |-> FALSE, summaries |-> 0, notice |-> "", last |-> "",
         timers |-> {}, reentries |-> 0]

Observe(o, requeuedNow) ==
  [o EXCEPT !.requeued = Min(@ + requeuedNow, MaxRequeueCount)]

\* A step taken at the while test begins an iteration, which arms the race's
\* timer with (this.settings.urlTimeout + 5) * 1000.
Armed(o) ==
  IF pc = "loop" THEN [o EXCEPT !.timers = @ \cup {settings.urlTimeout}] ELSE o

\* The notice a step showed, if any, becomes the last notice.
Noticed(o, x) == [o EXCEPT !.notice = IF x.notice # "" THEN x.notice ELSE @]

\* An abandoned attempt, marked with what it issued since it lost the race.
Late(p, x) ==
  [p EXCEPT !.late = IF x.fs > 0 THEN "fs" ELSE IF x.net > 0 THEN "net" ELSE @]

\* Worklists: extractTikTokUrls deduplicates, so the urls are distinct.
\* The clipboard text names the urls in this order; a worklist is what is left of
\* it after the selection prompt, at most MaxUrls of them.
Discovered == <<"s1", "v1", "p1">>

Picked(keep) == SelectSeq(Discovered, LAMBDA u : u \in keep)

Worklists == {Picked(keep) : keep \in {k \in SUBSET Urls : Cardinality(k) \in 1..MaxUrls}}

\* Notes the vault may hold before the run.
OldNote == <<"old", "old">>
InitialVaults ==
  { <<>>, (FilePath(<<"A", "T">>, 0) :> OldNote) }

Init ==
  /\ settings \in [handlePrivateVideos : {"create-empty", "skip"}, urlTimeout : {DefaultUrlTimeout},
                  enableBulkProcessing : {TRUE}, bypassModalForSingle : {TRUE}]  \* 'show-error' differs from 'create-empty' in the description only
  /\ isMobile = FALSE
  /\ files \in InitialVaults
  /\ folderExists = (files # <<>>)
  /\ urls \in Worklists
  /\ processingQueue = <<>>
  /\ results = <<>>
  /\ processed = 0
  /\ pc = "idle"
  /\ cur = Idle
  /\ abandoned = {}
  /\ single = Idle
  /\ modal = NoModal
  /\ picker = NoPicker
  /\ disc = NoText
  /\ obs = Obs0
  /\ tagging = NoTags
  /\ naming = NoNaming
  /\ dating = NoDating
  /\ noticeThrows = FALSE

\* processBulkTikToks(urls) is entered: results = [], processingQueue = [...urls].
StartBatch ==
  /\ pc = "idle"
  /\ Len(urls) > 0
  /\ processingQueue' = urls
  /\ results' = <<>>
  /\ processed' = 0
  /\ pc' = "loop"
  /\ UNCHANGED <<tagging, naming, dating, noticeThrows, disc, picker, settings, isMobile, files, folderExists, urls, cur, abandoned,
                 single, modal, obs>>

\* The loop takes the decided race of `url` and goes back to the while test.
Decide(url, out, queue, byTimer) ==
  LET s == Settle(url, out.ret, out.val, out.msg, queue)
      follow == byTimer /\ ~obs.tracked
  IN /\ processingQueue' = s.queue
     /\ results' = s.results
     /\ processed' = s.processed
     /\ obs' = [Noticed(Observe(Armed(obs), s.requeued), out.x) EXCEPT
                  !.tracked = @ \/ follow]
     /\ abandoned' = IF follow THEN abandoned \cup {cur} ELSE abandoned
     /\ files' = out.x.files
     /\ folderExists' = out.x.folder
     /\ cur' = Idle
     /\ pc' = "loop"

\* The loop keeps awaiting Promise.race: the attempt is suspended again.
KeepWaiting(out, queue) ==
  /\ processingQueue' = queue
  /\ cur' = out.p
  /\ pc' = "await"
  /\ files' = out.x.files
  /\ folderExists' = out.x.folder
  /\ obs' = Noticed(Armed(obs), out.x)
  /\ UNCHANGED <<results, processed, abandoned>>

\* while (queue.length > 0) { url = queue.shift(); ... processTikTokUrlBulk(url) ...
Dequeue ==
  /\ pc = "loop"
  /\ Len(processingQueue) > 0
  /\ LET url == Head(processingQueue)
         out == Start(url, TRUE, "note", Fx(files, folderExists))
     IN IF out.ret = "none" THEN KeepWaiting(out, Tail(processingQueue))
        ELSE Decide(url, out, Tail(processingQueue), FALSE)
  /\ UNCHANGED <<tagging, naming, dating, noticeThrows, disc, picker, settings, isMobile, urls, single, modal>>

\* The operation the awaited attempt is suspended on completes.
InFlightStep ==
  /\ pc = "await"
  /\ \E o \in Outcomes(cur.stage) :
       LET out == Resume(cur, o, Fx(files, folderExists))
       IN IF out.ret = "none" THEN KeepWaiting(out, processingQueue)
          ELSE Decide(cur.url, out, processingQueue, FALSE)
  /\ UNCHANGED <<tagging, naming, dating, noticeThrows, disc, picker, settings, isMobile, urls, single, modal>>

\* The (urlTimeout + 5) s timer rejects the race first.  Promise.race does not
\* stop the losing promise: the attempt keeps running, unobserved.  The first
\* such attempt of a run is followed; a later one is taken never to complete.
Timeout ==
  /\ pc = "await"
  /\ Decide(cur.url,
            Thrown("Processing timeout", Fx(files, folderExists)),
            processingQueue, TRUE)
  /\ UNCHANGED <<tagging, naming, dating, noticeThrows, disc, picker, settings, isMobile, urls, single, modal>>

\* An attempt that lost the race is resumed by the completion of its operation.
AbandonedStep ==
  /\ \E p \in abandoned : \E o \in Outcomes(p.stage) :
       LET out == Resume(p, o, Fx(files, folderExists))
       IN /\ abandoned' = (abandoned \ {p}) \cup
                            (IF out.ret = "none" THEN {Late(out.p, out.x)} ELSE {})
          /\ files' = out.x.files
          /\ folderExists' = out.x.folder
          /\ obs' = Noticed(obs, out.x)
  /\ UNCHANGED <<tagging, naming, dating, noticeThrows, disc, picker, settings, isMobile, urls, processingQueue, results, processed,
                 pc, cur, single, modal>>

\* The queue is empty: modal.close(); showBulkProcessingResults(results).
Finish ==
  /\ pc = "loop"
  /\ Len(processingQueue) = 0
  /\ pc' = "done"
  /\ obs' = [obs EXCEPT !.summaries = Min(@ + 1, 2)]
  /\ modal' = IF Len(duplicates(results)) > 0 \/ Len(failed(results)) > 0
                 \/ Len(oembedFailed(results)) > 0 \/ Len(slideshows(results)) > 0
                 \/ Len(skippedPrivate(results)) > 0
              THEN [open |-> TRUE, duplicates |-> duplicates(results),
                    failed |-> failed(results), job |-> Idle, retry |-> <<>>,
                    bulk |-> NoBulk]
              ELSE NoModal
  /\ UNCHANGED <<tagging, naming, dating, noticeThrows, disc, picker, settings, isMobile, files, folderExists, urls, processingQueue,
                 results, processed, cur, abandoned, single>>

Next ==
  \/ StartBatch
  \/ Dequeue
  \/ InFlightStep
  \/ Timeout
  \/ AbandonedStep
  \/ Finish

Spec == Init /\ [][Next]_vars

\* The batch loop over a worklist of one url, for every policy and both
\* platforms.
InitOne ==
  /\ settings \in [handlePrivateVideos : PrivatePolicies, urlTimeout : {DefaultUrlTimeout},
                  enableBulkProcessing : {TRUE}, bypassModalForSingle : {TRUE}]
  /\ isMobile \in BOOLEAN
  /\ files \in InitialVaults
  /\ folderExists = (files # <<>>)
  /\ urls \in {<<u>> : u \in Urls}
  /\ processingQueue = <<>>
  /\ results = <<>>
  /\ processed = 0
  /\ pc = "idle"
  /\ cur = Idle
  /\ abandoned = {}
  /\ single = Idle
  /\ modal = NoModal
  /\ picker = NoPicker
  /\ disc = NoText
  /\ obs = Obs0
  /\ tagging = NoTags
  /\ naming = NoNaming
  /\ dating = NoDating
  /\ noticeThrows = FALSE

SpecOne == InitOne /\ [][Next]_vars

\* The event loop runs every continuation that is ready, every awaited operation
\* ends (with a result or an error) and the race's timer always fires: each step
\* that stays possible is eventually taken.  Whether an attempt or the timer
\* wins a race is left open.
SpecFair ==
  /\ Spec
  /\ WF_vars(StartBatch)
  /\ WF_vars(Dequeue)
  /\ WF_vars(InFlightStep \/ Timeout)
  /\ WF_vars(AbandonedStep)
  /\ WF_vars(Finish)

\* ------------------------------------------------------------- single item
\* processTikTokUrl(tikTokUrls[0]): the same pipeline with isBulkProcessing =
\* false, its result dropped, an error answered by a notice.
MaxSuffix == 2

SingleName == <<"A", "T">>

\* Vaults for the single-item flow: any of <name>.md, <name>-1.md ...
\* <name>-MaxSuffix.md may be there already.
SingleVaults ==
  { [q \in held |-> OldNote] :
      held \in SUBSET {FilePath(SingleName, k) : k \in 0..MaxSuffix} }

InitSingle ==
  /\ settings \in [handlePrivateVideos : PrivatePolicies, urlTimeout : {DefaultUrlTimeout},
                  enableBulkProcessing : {TRUE}, bypassModalForSingle : {TRUE}]
  /\ isMobile \in BOOLEAN
  /\ files \in SingleVaults
  /\ folderExists = (files # <<>>)
  /\ urls \in {<<u>> : u \in Urls}
  /\ processingQueue = <<>>
  /\ results = <<>>
  /\ processed = 0
  /\ pc = "idle"
  /\ cur = Idle
  /\ abandoned = {}
  /\ single = Idle
  /\ modal = NoModal
  /\ picker = NoPicker
  /\ disc = NoText
  /\ obs = Obs0
  /\ tagging = NoTags
  /\ naming = NoNaming
  /\ dating = NoDating
  /\ noticeThrows = FALSE

\* The single-item pipeline is suspended again, or it ended: by a return (the
\* notice of createTikTokNote stands) or by a throw (the catch block's notice).
SingleGoesOn(out, ended) ==
  /\ files' = out.x.files
  /\ folderExists' = out.x.folder
  /\ single' = out.p
  /\ pc' = IF out.ret = "none" THEN "single" ELSE "single-done"
  /\ obs' = [obs EXCEPT !.notice = CASE out.ret = "throw" -> "Failed to process TikTok URL"
                                     [] out.x.notice # "" -> out.x.notice
                                     [] OTHER -> @,
                         !.last = ended]

StartSingle ==
  /\ pc = "idle"
  /\ Len(urls) = 1
  /\ SingleGoesOn(Start(urls[1], FALSE, "note", Fx(files, folderExists)), "")
  /\ UNCHANGED <<tagging, naming, dating, noticeThrows, disc, picker, settings, isMobile, urls, processingQueue, results, processed,
                 cur, abandoned, modal>>

\* The operation (or prompt) the single-item pipeline waits on completes.
SingleStep ==
  /\ pc = "single"
  /\ \E o \in Outcomes(single.stage) :
       SingleGoesOn(Resume(single, o, Fx(files, folderExists)), o.kind)
  /\ UNCHANGED <<tagging, naming, dating, noticeThrows, disc, picker, settings, isMobile, urls, processingQueue, results, processed,
                 cur, abandoned, modal>>

NextSingle ==
  \/ StartSingle
  \/ SingleStep

SpecSingle == InitSingle /\ [][NextSingle]_vars

\* ------------------------------------------------------------- note writer
\* createTikTokNote in both modes: from the same initial states the url is put
\* either to the batch loop or to the single-item flow.
NextWriter ==
  \/ Next
  \/ NextSingle

SpecWriter == InitOne /\ [][NextWriter]_vars

\* ------------------------------------------------------------- resolver alone
\* expandUrl and fetchTikTokData(expandedUrl, isBulkProcessing) for any url,
\* platform, policy and network behaviour; the record it returns stays in
\* single.data at stage "resolved".
StartResolve ==
  /\ pc = "idle"
  /\ Len(urls) = 1
  /\ \E bulk \in BOOLEAN :
       SingleGoesOn(Start(urls[1], bulk, "resolve", Fx(files, folderExists)), "")
  /\ UNCHANGED <<tagging, naming, dating, noticeThrows, disc, picker, settings, isMobile, urls, processingQueue, results, processed,
                 cur, abandoned, modal>>

NextResolve ==
  \/ StartResolve
  \/ SingleStep

SpecResolve == InitSingle /\ [][NextResolve]_vars

\* The resolver where the notice of handlePrivateVideo may fail.
InitNotice ==
  /\ settings \in [handlePrivateVideos : PrivatePolicies, urlTimeout : {DefaultUrlTimeout},
                  enableBulkProcessing : {TRUE}, bypassModalForSingle : {TRUE}]
  /\ isMobile \in BOOLEAN
  /\ files = <<>>
  /\ folderExists = FALSE
  /\ urls \in {<<u>> : u \in Urls}
  /\ processingQueue = <<>>
  /\ results = <<>>
  /\ processed = 0
  /\ pc = "idle"
  /\ cur = Idle
  /\ abandoned = {}
  /\ single = Idle
  /\ modal = NoModal
  /\ picker = NoPicker
  /\ disc = NoText
  /\ obs = Obs0
  /\ tagging = NoTags
  /\ naming = NoNaming
  /\ dating = NoDating
  /\ noticeThrows \in BOOLEAN

SpecNotice == InitNotice /\ [][NextResolve]_vars

\* ------------------------------------------------------------- url discovery
\* A text is a sequence of pieces.  Each piece stands for a run of characters
\* that the patterns of extractTikTokUrls and isTikTokUrl treat alike:
\*   "P"  https://tiktok.com/            "Q"  https://vm.tiktok.com/
\*   "U"  HTTPS://TIKTOK.COM/            (upper case)
\*   "v"  @a/video/1                     "t"  t/x
\*   "o"  any other path text, e.g. about
\*   " "  a character the pattern's class excludes: white space ] ) " ' < >
\*   "."  a punctuation character the class does not exclude: . , ; : ! ?
MaxTextLen == 5

Pieces == {"P", "Q", "U", "v", "t", "o", " ", "."}

Texts == UNION {[1..n -> Pieces] : n \in 0..MaxTextLen}

\* /https?:\/\/(?:www\.)?(tiktok\.com|vm\.tiktok\.com)\/ ... /gi : with the i
\* flag the upper-case prefix matches too.
PatternPrefixes == {"P", "Q", "U"}

\* [^\s\]\)\"\'<>]
InClass(piece) == piece # " "

\* The + of the pattern is greedy: the match runs to the last piece in the class.
RECURSIVE MatchEnd(_, _)
MatchEnd(text, j) ==
  IF j + 1 <= Len(text) /\ InClass(text[j + 1]) THEN MatchEnd(text, j + 1) ELSE j

\* text.match(urlPattern) || []: the matches from position i on, left to right,
\* not overlapping.
RECURSIVE Matches(_, _)
Matches(text, i) ==
  IF i > Len(text) THEN <<>>
  ELSE IF text[i] \in PatternPrefixes /\ i < Len(text) /\ InClass(text[i + 1])
       THEN LET k == MatchEnd(text, i + 1)
            IN <<SubSeq(text, i, k)>> \o Matches(text, k + 1)
       ELSE Matches(text, i + 1)

Member(x, seq) == \E i \in 1..Len(seq) : seq[i] = x

\* Mutant of Unique: nothing is dropped.
Unique_KeepsAll(seq) == seq

\* [...new Set(matches)]: insertion order, later copies dropped.
RECURSIVE Unique(_)
Unique(seq) ==
  IF seq = <<>> THEN <<>>
  ELSE LET front == Unique(SubSeq(seq, 1, Len(seq) - 1))
           x == seq[Len(seq)]
       IN IF Member(x, front) THEN front ELSE Append(front, x)

\* isTikTokUrl: the three patterns, without the i flag.
\*   /^https?:\/\/(www\.)?(tiktok\.com|vm\.tiktok\.com)/
\*   /^https?:\/\/tiktok\.com\/t\//
\*   /^https?:\/\/(www\.)?tiktok\.com\/@[\w.-]+\/video\/\d+/
DomainPattern(url) == url[1] \in {"P", "Q"}
ShortPathPattern(url) == url[1] = "P" /\ Len(url) >= 2 /\ url[2] = "t"
VideoPattern(url) == url[1] = "P" /\ Len(url) >= 2 /\ url[2] = "v"

isTikTokUrl(url) == DomainPattern(url) \/ ShortPathPattern(url) \/ VideoPattern(url)

\* uniqueUrls.filter(url => this.isTikTokUrl(url))
extractTikTokUrls(text) == SelectSeq(Unique(Matches(text, 1)), isTikTokUrl)

InitDiscovery ==
  /\ settings \in [handlePrivateVideos : {"create-empty"}, urlTimeout : {DefaultUrlTimeout},
                  enableBulkProcessing : {TRUE}, bypassModalForSingle : {TRUE}]
  /\ isMobile = FALSE
  /\ files = <<>>
  /\ folderExists = FALSE
  /\ urls = <<>>
  /\ processingQueue = <<>>
  /\ results = <<>>
  /\ processed = 0
  /\ pc = "idle"
  /\ cur = Idle
  /\ abandoned = {}
  /\ single = Idle
  /\ modal = NoModal
  /\ picker = NoPicker
  /\ disc \in [text : Texts, calls : {<<>>}, found : {<<>>}]
  /\ obs = Obs0
  /\ tagging = NoTags
  /\ naming = NoNaming
  /\ dating = NoDating
  /\ noticeThrows = FALSE

\* processTikTokFromClipboard reads the clipboard and calls extractTikTokUrls;
\* the command can be run again on the same clipboard.
Discover ==
  /\ Len(disc.calls) < 2
  /\ disc' = [disc EXCEPT !.calls = Append(@, extractTikTokUrls(disc.text))]
  /\ UNCHANGED <<tagging, naming, dating, noticeThrows, settings, isMobile, files, folderExists, urls, processingQueue,
                 results, processed, pc, cur, abandoned, single, modal, picker, obs>>

NextDiscovery ==
  \/ Discover

SpecDiscovery == InitDiscovery /\ [][NextDiscovery]_vars

\* ------------------------------------------------------------- selection prompts
\* The lists a prompt can be opened with: the discovered urls, in their order.
PromptLists == {Picked(keep) : keep \in (SUBSET Urls) \ {{}}}

\* BulkProcessingModal is opened only for more than one url
\* (shouldShowBulkModal); every checkbox starts checked.
InitPrompts ==
  /\ settings \in [handlePrivateVideos : {"create-empty"}, urlTimeout : {DefaultUrlTimeout},
                  enableBulkProcessing : {TRUE}, bypassModalForSingle : {TRUE}]
  /\ isMobile = FALSE
  /\ files = <<>>
  /\ folderExists = FALSE
  /\ urls = <<>>
  /\ processingQueue = <<>>
  /\ results = <<>>
  /\ processed = 0
  /\ pc = "idle"
  /\ cur = Idle
  /\ abandoned = {}
  /\ single = Idle
  /\ modal = NoModal
  /\ \E list \in PromptLists : \E kind \in {"bulk", "multi"} :
       /\ kind = "bulk" => Len(list) > 1
       /\ picker = [kind |-> kind, open |-> TRUE, given |-> list, urls |-> list,
                    checked |-> 1..Len(list), called |-> FALSE, arg |-> <<>>]
  /\ disc = NoText
  /\ obs = Obs0
  /\ tagging = NoTags
  /\ naming = NoNaming
  /\ dating = NoDating
  /\ noticeThrows = FALSE

\* this.urls.filter((_, index) => this.checkboxes[index].checked)
RECURSIVE CheckedFrom(_, _, _)
CheckedFrom(list, i, checked) ==
  IF i > Len(list) THEN <<>>
  ELSE (IF i \in checked THEN <<list[i]>> ELSE <<>>) \o CheckedFrom(list, i + 1, checked)

Spliced_Rest(list, i) == SubSeq(list, 1, i - 1)

\* this.urls.splice(index, 1)
Spliced(list, i) == SubSeq(list, 1, i - 1) \o SubSeq(list, i + 1, Len(list))

\* A checkbox is clicked, or selectAllBtn / deselectAllBtn.
ToggleCheckbox ==
  /\ picker.kind = "bulk" /\ picker.open
  /\ \E c \in {picker.checked \cup {i} : i \in 1..Len(picker.urls)}
             \cup {picker.checked \ {i} : i \in 1..Len(picker.urls)}
             \cup {1..Len(picker.urls), {}} :
       /\ c # picker.checked
       /\ picker' = [picker EXCEPT !.checked = c]
  /\ UNCHANGED <<tagging, naming, dating, noticeThrows, disc, settings, isMobile, files, folderExists, urls, processingQueue,
                 results, processed, pc, cur, abandoned, single, modal, obs>>

\* processBtn.onclick: an empty selection is answered by a notice and the prompt
\* stays; otherwise onSubmit(selectedUrls), close().
ProcessSelected ==
  /\ picker.kind = "bulk" /\ picker.open
  /\ LET selectedUrls == CheckedFrom(picker.urls, 1, picker.checked)
     IN IF Len(selectedUrls) = 0
        THEN /\ obs' = [obs EXCEPT !.notice = "Please select at least one URL to process"]
             /\ UNCHANGED <<picker, urls>>
        ELSE /\ picker' = [picker EXCEPT !.open = FALSE, !.called = TRUE,
                                         !.arg = selectedUrls]
             /\ urls' = selectedUrls
             /\ UNCHANGED obs
  /\ UNCHANGED <<tagging, naming, dating, noticeThrows, disc, settings, isMobile, files, folderExists, processingQueue,
                 results, processed, pc, cur, abandoned, single, modal>>

\* removeBtn.onclick of MultiUrlModal.
RemoveUrl ==
  /\ picker.kind = "multi" /\ picker.open
  /\ \E i \in 1..Len(picker.urls) :
       picker' = [picker EXCEPT !.urls = Spliced(picker.urls, i)]
  /\ UNCHANGED <<tagging, naming, dating, noticeThrows, disc, settings, isMobile, files, folderExists, urls, processingQueue,
                 results, processed, pc, cur, abandoned, single, modal, obs>>

\* importButton.onclick: await this.onSubmit([...this.urls]); this.close().
Import ==
  /\ picker.kind = "multi" /\ picker.open
  /\ picker' = [picker EXCEPT !.open = FALSE, !.called = TRUE, !.arg = picker.urls]
  /\ urls' = picker.urls
  /\ UNCHANGED <<tagging, naming, dating, noticeThrows, disc, settings, isMobile, files, folderExists, processingQueue,
                 results, processed, pc, cur, abandoned, single, modal, obs>>

\* cancelBtn.onclick: this.close().
CancelPrompt ==
  /\ picker.open
  /\ picker' = [picker EXCEPT !.open = FALSE]
  /\ UNCHANGED <<tagging, naming, dating, noticeThrows, disc, settings, isMobile, files, folderExists, urls, processingQueue,
                 results, processed, pc, cur, abandoned, single, modal, obs>>

NextPrompts ==
  \/ ToggleCheckbox
  \/ ProcessSelected
  \/ RemoveUrl
  \/ Import
  \/ CancelPrompt

SpecPrompts == InitPrompts /\ [][NextPrompts]_vars

\* ------------------------------------------------------------- results actions
\* handleDuplicateAction is suspended again, or it ended.  The item is taken
\* off the list however createTikTokNote answered; only a throw leaves it there.
DuplicateActionGoesOn(job, out, bulk) ==
  /\ files' = out.x.files
  /\ folderExists' = out.x.folder
  /\ modal' = CASE out.ret = "none"  -> [modal EXCEPT !.job = out.p, !.bulk = bulk]
                [] out.ret = "throw" -> [modal EXCEPT !.job = Idle, !.bulk = bulk]
                [] OTHER -> [modal EXCEPT
                               !.job = Idle,
                               !.bulk = bulk,
                               !.duplicates = SelectSeq(@, LAMBDA item : item.url # job.url)]
  /\ obs' = [obs EXCEPT !.notice =
               CASE out.ret = "throw" -> "Failed to process duplicate"
                 [] out.ret = "return" /\ job.then = "duplicate" -> "Duplicate file created"
                 [] out.x.notice # "" -> out.x.notice
                 [] OTHER -> "Processing duplicate"]

\* BulkResultsModal.handleDuplicateAction(url, action), pressed for one item of
\* the duplicate list while no other action of the collaborator is running.
DuplicateAction ==
  /\ pc = "done"
  /\ modal.open
  /\ modal.job.stage = "idle"
  /\ \E i \in 1..Len(modal.duplicates) : \E action \in {"replace", "duplicate", "skip"} :
       LET url == modal.duplicates[i].url
       IN DuplicateActionGoesOn([Idle EXCEPT !.url = url, !.then = action],
                                Start(url, FALSE, action, Fx(files, folderExists)),
                                modal.bulk)
  /\ UNCHANGED <<tagging, naming, dating, noticeThrows, disc, picker, settings, isMobile, urls, processingQueue, results, processed,
                 pc, cur, abandoned, single>>

\* The operation (or prompt) the collaborator's action waits on completes.
DuplicateActionStep ==
  /\ pc = "done"
  /\ modal.job.stage # "idle"
  /\ \E o \in Outcomes(modal.job.stage) :
       DuplicateActionGoesOn(modal.job, Resume(modal.job, o, Fx(files, folderExists)),
                             modal.bulk)
  /\ UNCHANGED <<tagging, naming, dating, noticeThrows, disc, picker, settings, isMobile, urls, processingQueue, results, processed,
                 pc, cur, abandoned, single>>

\* handleBulkDuplicateAction's loop takes the next url of its snapshot:
\* handleDuplicateAction(url, action) returns at once when the item is no
\* longer listed, else it runs as for a single press.
BulkTake(action, rest) ==
  LET url == Head(rest)
      bulk == [action |-> action, rest |-> Tail(rest)]
  IN IF \E i \in 1..Len(modal.duplicates) : modal.duplicates[i].url = url
     THEN DuplicateActionGoesOn([Idle EXCEPT !.url = url, !.then = action],
                                Start(url, FALSE, action, Fx(files, folderExists)), bulk)
     ELSE /\ modal' = [modal EXCEPT !.bulk = bulk]
          /\ UNCHANGED <<files, folderExists, obs>>

\* bulkReplaceBtn / bulkDuplicateBtn.onclick: handleBulkDuplicateAction(action):
\* urls = this.duplicates.map(item => item.url), and the first url is taken.
BulkDuplicateAction ==
  /\ pc = "done"
  /\ modal.open
  /\ modal.job.stage = "idle"
  /\ modal.bulk.action = ""
  /\ Len(modal.duplicates) > 0
  /\ \E action \in {"replace", "duplicate"} :
       BulkTake(action, [i \in 1..Len(modal.duplicates) |-> modal.duplicates[i].url])
  /\ UNCHANGED <<tagging, naming, dating, noticeThrows, disc, picker, settings, isMobile, urls, processingQueue, results, processed,
                 pc, cur, abandoned, single>>

\* The 100 ms delay after an item is over and the snapshot has another url.
BulkNext ==
  /\ pc = "done"
  /\ modal.job.stage = "idle"
  /\ modal.bulk.action # ""
  /\ Len(modal.bulk.rest) > 0
  /\ BulkTake(modal.bulk.action, modal.bulk.rest)
  /\ UNCHANGED <<tagging, naming, dating, noticeThrows, disc, picker, settings, isMobile, urls, processingQueue, results, processed,
                 pc, cur, abandoned, single>>

\* The delay after the last item is over: if (this.duplicates.length === 0)
\* { new Notice('All duplicates ...'); this.close(); }
BulkEnds ==
  /\ pc = "done"
  /\ modal.job.stage = "idle"
  /\ modal.bulk.action # ""
  /\ Len(modal.bulk.rest) = 0
  /\ IF Len(modal.duplicates) = 0
     THEN /\ modal' = [modal EXCEPT !.bulk = NoBulk, !.open = FALSE]
          /\ obs' = [obs EXCEPT !.notice = IF modal.bulk.action = "replace"
                                           THEN "All duplicates replaced"
                                           ELSE "All duplicates created"]
     ELSE /\ modal' = [modal EXCEPT !.bulk = NoBulk]
          /\ obs' = obs
  /\ UNCHANGED <<tagging, naming, dating, noticeThrows, disc, picker, settings, isMobile, files, folderExists, urls, processingQueue,
                 results, processed, pc, cur, abandoned, single>>

\* retryBtn.onclick: failedUrls = this.failed.map(item => item.url);
\* this.onRetry(failedUrls) arms the 2000 ms timer; this.close().  The button
\* exists only while the failed list is not empty.
UrlsOf(items) == [i \in 1..Len(items) |-> items[i].url]

RetryPressed ==
  /\ pc = "done"
  /\ modal.open
  /\ modal.job.stage = "idle"
  /\ Len(modal.failed) > 0
  /\ modal' = [modal EXCEPT !.open = FALSE, !.retry = UrlsOf(modal.failed)]
  /\ pc' = "retry-wait"
  /\ UNCHANGED <<tagging, naming, dating, noticeThrows, disc, picker, settings, isMobile, files, folderExists, urls, processingQueue,
                 results, processed, cur, abandoned, single, obs>>

\* The timer fires: processBulkTikToks(failedUrls) is entered as by StartBatch.
RetryFires ==
  /\ pc = "retry-wait"
  /\ Len(modal.retry) > 0
  /\ urls' = modal.retry
  /\ processingQueue' = modal.retry
  /\ results' = <<>>
  /\ processed' = 0
  /\ pc' = "loop"
  /\ modal' = NoModal
  /\ obs' = [Obs0 EXCEPT !.notice = obs.notice]
  /\ UNCHANGED <<tagging, naming, dating, noticeThrows, disc, picker, settings, isMobile, files, folderExists, cur, abandoned, single>>

\* A batch run in which every race is won by the attempt, followed by the
\* actions of the results collaborator.
NextModal ==
  \/ StartBatch
  \/ Dequeue
  \/ InFlightStep
  \/ Finish
  \/ DuplicateAction
  \/ DuplicateActionStep
  \/ BulkDuplicateAction
  \/ BulkNext
  \/ BulkEnds
  \/ RetryPressed
  \/ RetryFires

SpecModal == Init /\ [][NextModal]_vars

\* ------------------------------------------------------------- hashtags
\* A title is a sequence of characters: "#", the word characters "a" and "b"
\* (the class [\w\u00c0-\u024f\u1e00-\u1eff]) and the space " ", which like any
\* other character ends a hashtag.
MaxTitleLen == 4

TitleChars == {"#", "a", "b", " "}

Titles == UNION {[1..n -> TitleChars] : n \in 0..MaxTitleLen}

WordChar(c) == c \in {"a", "b"}

\* The + of /#[\w...]+/ is greedy: the match runs to the last word character.
RECURSIVE HashtagEnd(_, _)
HashtagEnd(text, j) ==
  IF j + 1 <= Len(text) /\ WordChar(text[j + 1]) THEN HashtagEnd(text, j + 1) ELSE j

\* text.match(hashtagRegex) || []: every match from position i on, left to
\* right; the array is returned as match gives it.
RECURSIVE extractHashtags(_, _)
extractHashtags(text, i) ==
  IF i > Len(text) THEN <<>>
  ELSE IF text[i] = "#" /\ i < Len(text) /\ WordChar(text[i + 1])
       THEN LET k == HashtagEnd(text, i + 1)
            IN <<SubSeq(text, i, k)>> \o extractHashtags(text, k + 1)
       ELSE extractHashtags(text, i + 1)

InitHashtags ==
  /\ settings \in [handlePrivateVideos : {"create-empty"}, urlTimeout : {DefaultUrlTimeout},
                  enableBulkProcessing : {TRUE}, bypassModalForSingle : {TRUE}]
  /\ isMobile = FALSE
  /\ files = <<>>
  /\ folderExists = FALSE
  /\ urls = <<>>
  /\ processingQueue = <<>>
  /\ results = <<>>
  /\ processed = 0
  /\ pc = "idle"
  /\ cur = Idle
  /\ abandoned = {}
  /\ single = Idle
  /\ modal = NoModal
  /\ picker = NoPicker
  /\ disc = NoText
  /\ obs = Obs0
  /\ tagging \in [title : Titles, description : {<<>>}, hashtags : {<<>>}, built : {FALSE},
                  renders : {0}, out : {NoOutput}]
  /\ naming = NoNaming
  /\ dating = NoDating
  /\ noticeThrows = FALSE

\* description: oembedData.title || 'TikTok Video'; the default text is one piece.
DescriptionOf(title) == IF title = <<>> THEN <<"TikTok Video">> ELSE title

\* fetchTikTokData's primary record: description: oembedData.title || 'TikTok Video',
\* hashtags: this.extractHashtags(oembedData.title || '').
BuildHashtags ==
  /\ ~tagging.built
  /\ tagging' = [tagging EXCEPT !.description = DescriptionOf(tagging.title),
                                !.hashtags = extractHashtags(tagging.title, 1),
                                !.built = TRUE]
  /\ UNCHANGED <<settings, isMobile, files, folderExists, urls, processingQueue, results,
                 processed, pc, cur, abandoned, single, modal, picker, disc, naming,
                 dating, noticeThrows, obs>>

NextHashtags ==
  \/ BuildHashtags

SpecHashtags == InitHashtags /\ [][NextHashtags]_vars

\* ------------------------------------------------------------- rendering
\* The three render functions are called on a record any number of times (the
\* note, and again the name in the results collaborator); the model follows
\* MaxRenders calls.  Each call answers the rendered text and the record as
\* the call leaves it.
MaxRenders == 2

Rendered(data, out) == [data |-> data, out |-> out]

\* String.trim(): the spaces at both ends go.
RECURSIVE Trim(_)
Trim(text) ==
  IF text = <<>> THEN <<>>
  ELSE IF text[1] = " " THEN Trim(Tail(text))
  ELSE IF text[Len(text)] = " " THEN Trim(SubSeq(text, 1, Len(text) - 1))
  ELSE text

\* text.replace(new RegExp(escaped hashtag, 'gi'), ''): every occurrence, left
\* to right, an occurrence starting where the one before ended.
RECURSIVE RemoveAll(_, _, _)
RemoveAll(text, tag, i) ==
  IF i > Len(text) THEN <<>>
  ELSE IF i + Len(tag) - 1 <= Len(text) /\ SubSeq(text, i, i + Len(tag) - 1) = tag
       THEN RemoveAll(text, tag, i + Len(tag))
       ELSE <<text[i]>> \o RemoveAll(text, tag, i + 1)

\* text.replace(/\s+/g, ' '): a run of spaces becomes one space.
RECURSIVE CollapseSpaces(_, _)
CollapseSpaces(text, i) ==
  IF i > Len(text) THEN <<>>
  ELSE IF text[i] = " " /\ i < Len(text) /\ text[i + 1] = " " THEN CollapseSpaces(text, i + 1)
  ELSE <<text[i]>> \o CollapseSpaces(text, i + 1)

\* data.hashtags.forEach(...): cleanDescription, a local of the call, loses each
\* hashtag in turn and is trimmed after each.
RECURSIVE CleanEach(_, _, _)
CleanEach(cleanDescription, hashtags, k) ==
  IF k > Len(hashtags) THEN cleanDescription
  ELSE CleanEach(Trim(RemoveAll(cleanDescription, hashtags[k], 1)), hashtags, k + 1)

CleanDescription(data) ==
  IF Len(data.hashtags) > 0
  THEN Trim(CollapseSpaces(CleanEach(data.description, data.hashtags, 1), 1))
  ELSE data.description

\* generateFileName, the {{description}} of the pattern:
\* .replace(/[^\w\s-]/g, '').trim() on a copy; data is only read.
generateFileNameOn(data) ==
  Rendered(data, [kind |-> "fileName",
                  text |-> Trim(SelectSeq(data.description, LAMBDA c : c # "#")),
                  tags |-> <<>>])

\* generateNoteTitle: data.description || 'Unknown'; data is only read.
generateNoteTitleOn(data) ==
  Rendered(data, [kind |-> "title",
                  text |-> IF data.description = <<>> THEN <<"Unknown">> ELSE data.description,
                  tags |-> <<>>])

generateNoteContentOn_CleansInPlace(data) ==
  Rendered([data EXCEPT !.description = CleanDescription(data)],
           [kind |-> "content", text |-> CleanDescription(data),
            tags |-> data.hashtags \o <<"#tiktoker">>])

\* generateNoteContent: [...data.hashtags, '#tiktoker'] is a new array and
\* cleanDescription a local variable; data is only read.
generateNoteContentOn(data) ==
  Rendered(data, [kind |-> "content", text |-> CleanDescription(data),
                  tags |-> data.hashtags \o <<"#tiktoker">>])

RenderFunctions == {"fileName", "title", "content"}

RenderCall(f, data) ==
  CASE f = "fileName" -> generateFileNameOn(data)
    [] f = "title" -> generateNoteTitleOn(data)
    [] f = "content" -> generateNoteContentOn(data)

\* One call of a render function on the record built from the title.
Render ==
  /\ tagging.built
  /\ tagging.renders < MaxRenders
  /\ \E f \in RenderFunctions :
       LET r == RenderCall(f, [description |-> tagging.description,
                               hashtags |-> tagging.hashtags])
       IN tagging' = [tagging EXCEPT !.description = r.data.description,
                                     !.hashtags = r.data.hashtags,
                                     !.renders = @ + 1,
                                     !.out = r.out]
  /\ UNCHANGED <<settings, isMobile, files, folderExists, urls, processingQueue, results,
                 processed, pc, cur, abandoned, single, modal, picker, disc, naming,
                 dating, noticeThrows, obs>>

NextRender ==
  \/ BuildHashtags
  \/ Render

SpecRender == InitHashtags /\ [][NextRender]_vars

\* ------------------------------------------------------------- file names
\* A naming pattern and the texts of a record are sequences of pieces.  A
\* placeholder is one piece; "$&" is the replacement pattern of String.replace
\* that stands for the matched text; "@" and "#" are the marker characters; every
\* other piece is plain text.
MaxPatternLen == 2

Placeholders == {"{{author}}", "{{date}}", "{{videoId}}", "{{description}}", "{{title}}"}

PatternPieces == Placeholders \cup {"{{index}}", "-"}

Patterns == UNION {[1..n -> PatternPieces] : n \in 1..MaxPatternLen}

\* data.author: oembedData.author_name, or the handle found in the url.
Authors == {<<>>, <<"@", "a">>, <<"a", "#">>, <<"{{date}}">>, <<"{{author}}">>, <<"$&">>}

\* data.description: oembedData.title, or a fixed text.
Descriptions == {<<>>, <<"d">>, <<"{{title}}">>, <<"$&", "d">>}

\* .replace(/[@#]/g, '')
RECURSIVE StripMarkerChars(_)
StripMarkerChars(text) ==
  IF text = <<>> THEN <<>>
  ELSE (IF Head(text) \in {"@", "#"} THEN <<>> ELSE <<Head(text)>>)
         \o StripMarkerChars(Tail(text))

\* .replace(/[^\w\s-]/g, ''): braces and "$&" go, the word inside a placeholder
\* stays.  (substring(0, n) and trim() change no piece of these texts.)
RECURSIVE Sanitize(_)
Sanitize(text) ==
  IF text = <<>> THEN <<>>
  ELSE (CASE Head(text) = "{{title}}" -> <<"title">>
          [] Head(text) = "$&" -> <<>>
          [] OTHER -> <<Head(text)>>)
         \o Sanitize(Tail(text))

\* What String.replace inserts for one match of `token`: the replacement text,
\* with "$&" standing for the match.
RECURSIVE Inserted(_, _)
Inserted(replacement, token) ==
  IF replacement = <<>> THEN <<>>
  ELSE <<IF Head(replacement) = "$&" THEN token ELSE Head(replacement)>>
         \o Inserted(Tail(replacement), token)

\* text.replace(/token/g, replacement): every match in text is replaced; what was
\* inserted is not scanned again.
RECURSIVE ReplaceAll(_, _, _)
ReplaceAll(text, token, replacement) ==
  IF text = <<>> THEN <<>>
  ELSE (IF Head(text) = token THEN Inserted(replacement, token) ELSE <<Head(text)>>)
         \o ReplaceAll(Tail(text), token, replacement)

\* (data.author || 'unknown').replace(/[@#]/g, '')
AuthorSubstitute(author) ==
  StripMarkerChars(IF author = <<>> THEN <<"unknown">> ELSE author)

\* generateFileName for any naming pattern: the five replaces, in their order.
\* createdDate is always set, videoId is digits or missing.
generateFileNameWith(pattern, author, description) ==
  LET t1 == ReplaceAll(pattern, "{{author}}", AuthorSubstitute(author))
      t2 == ReplaceAll(t1, "{{date}}", <<Today>>)
      t3 == ReplaceAll(t2, "{{videoId}}", <<"1">>)
      t4 == ReplaceAll(t3, "{{description}}",
              Sanitize(IF description = <<>> THEN <<"TikTok Video">> ELSE description))
  IN ReplaceAll(t4, "{{title}}",
       Sanitize(IF description = <<>> THEN <<"tiktok">> ELSE description))

InitNaming ==
  /\ settings \in [handlePrivateVideos : {"create-empty"}, urlTimeout : {DefaultUrlTimeout},
                  enableBulkProcessing : {TRUE}, bypassModalForSingle : {TRUE}]
  /\ isMobile = FALSE
  /\ files = <<>>
  /\ folderExists = FALSE
  /\ urls = <<>>
  /\ processingQueue = <<>>
  /\ results = <<>>
  /\ processed = 0
  /\ pc = "idle"
  /\ cur = Idle
  /\ abandoned = {}
  /\ single = Idle
  /\ modal = NoModal
  /\ picker = NoPicker
  /\ disc = NoText
  /\ obs = Obs0
  /\ tagging = NoTags
  /\ naming \in [pattern : Patterns, author : Authors, description : Descriptions,
                  index : 1..MaxUrls, sub : {<<>>}, out : {<<>>}, done : {FALSE}]
  /\ dating = NoDating
  /\ noticeThrows = FALSE

\* createTikTokNote names the note of the record that is item `index` of a
\* batch: const fileName = this.generateFileName(data).
NameNote ==
  /\ ~naming.done
  /\ naming' = [naming EXCEPT
                  !.sub = AuthorSubstitute(naming.author),
                  !.out = generateFileNameWith(naming.pattern, naming.author,
                                               naming.description),
                  !.done = TRUE]
  /\ UNCHANGED <<settings, isMobile, files, folderExists, urls, processingQueue, results,
                 processed, pc, cur, abandoned, single, modal, picker, disc, tagging,
                 dating, noticeThrows, obs>>

NextNaming ==
  \/ NameNote

SpecNaming == InitNaming /\ [][NextNaming]_vars

\* ------------------------------------------------------------- posted date
\* An identifier is a decimal text of a number below 2^63, held as hi (its bits
\* 32..62, the number shifted right by 32) and mid (its bits 16..31); the lowest
\* 16 bits take no part in what the code computes.  A url carries it after
\* /video/ (seg "video") or after /photo/ (seg "photo"), or has none.
MaxSlack == 1         \* how far from each boundary the identifiers are taken

MinTimestamp == 1262304000   \* 2010-01-01T00:00:00Z
MaxTimestamp == 1893456000   \* 2030-01-01T00:00:00Z

\* 10^18 = TenPow18Hi * 2^32 + TenPow18Mid * 2^16: the least number of 19 digits.
TenPow18Hi == 232830643
TenPow18Mid == 42852

VideoIds ==
  {[hi |-> h + d, mid |-> m] :
     h \in {TenPow18Hi, MinTimestamp, MaxTimestamp}, d \in (0 - MaxSlack)..MaxSlack,
     m \in {0, TenPow18Mid - 1, TenPow18Mid, 65535}}
    \cup {[hi |-> 0, mid |-> 0]}

NoVideoId == [hi |-> 0 - 1, mid |-> 0]

\* url.match(/\/video\/(\d+)/): only the /video/ segment gives an identifier.
VideoIdIn(seg, id) == IF seg = "video" THEN id ELSE NoVideoId

\* videoId.length >= 19
HasNineteenDigits(id) ==
  id.hi > TenPow18Hi \/ (id.hi = TenPow18Hi /\ id.mid >= TenPow18Mid)

\* Number(BigInt(videoId) >> BigInt(32))
ShiftRight32(id) == id.hi

\* Mutant of TimestampAccepted: the upper limit is taken in.
TimestampAccepted_UpperInclusive(timestamp) ==
  timestamp > MinTimestamp /\ timestamp <= MaxTimestamp

\* timestamp > 1262304000 && timestamp < 1893456000
TimestampAccepted(timestamp) == timestamp > MinTimestamp /\ timestamp < MaxTimestamp

\* new Date(timestamp * 1000).toISOString().split('T')[0]: the UTC calendar day
\* of the instant, named by its number since 1970-01-01.
DayOf(timestamp) == timestamp \div 86400

InitDating ==
  /\ settings \in [handlePrivateVideos : {"create-empty"}, urlTimeout : {DefaultUrlTimeout},
                  enableBulkProcessing : {TRUE}, bypassModalForSingle : {TRUE}]
  /\ isMobile \in BOOLEAN
  /\ files = <<>>
  /\ folderExists = FALSE
  /\ urls = <<>>
  /\ processingQueue = <<>>
  /\ results = <<>>
  /\ processed = 0
  /\ pc = "idle"
  /\ cur = Idle
  /\ abandoned = {}
  /\ single = Idle
  /\ modal = NoModal
  /\ picker = NoPicker
  /\ disc = NoText
  /\ obs = Obs0
  /\ tagging = NoTags
  /\ naming = NoNaming
  /\ \E seg \in {"video", "photo", "none"} : \E id \in VideoIds :
       /\ seg = "none" => id = [hi |-> 0, mid |-> 0]
       /\ dating = [NoDating EXCEPT !.seg = seg, !.id = id]
  /\ noticeThrows = FALSE

\* extractTikTokPostedDate(url, this.extractVideoId(url)) from its entry to its
\* await or its return.
AskPostedDate ==
  /\ dating.stage = "idle"
  /\ LET videoId == VideoIdIn(dating.seg, dating.id)
     IN IF videoId # NoVideoId /\ HasNineteenDigits(videoId)
             /\ TimestampAccepted(ShiftRight32(videoId))
        THEN dating' = [dating EXCEPT
                          !.stage = "done",
                          !.posted = [by |-> "id", day |-> DayOf(ShiftRight32(videoId))]]
        ELSE dating' = [dating EXCEPT !.stage = "head", !.heads = @ + 1]
  /\ UNCHANGED <<settings, isMobile, files, folderExists, urls, processingQueue, results,
                 processed, pc, cur, abandoned, single, modal, picker, disc, tagging,
                 naming, noticeThrows, obs>>

\* The HEAD request for last-modified ended.
PostedDateHeadEnds ==
  /\ dating.stage = "head"
  /\ \E o \in Outcomes("date") :
       dating' = [dating EXCEPT
                    !.stage = "done",
                    !.last = o.kind,
                    !.posted = [by |-> IF PostedFromHead(o.kind) = Today
                                       THEN "clock" ELSE "header",
                                day |-> 0]]
  /\ UNCHANGED <<settings, isMobile, files, folderExists, urls, processingQueue, results,
                 processed, pc, cur, abandoned, single, modal, picker, disc, tagging,
                 naming, noticeThrows, obs>>

NextDating ==
  \/ AskPostedDate
  \/ PostedDateHeadEnds

SpecDating == InitDating /\ [][NextDating]_vars

\* ------------------------------------------------------------- settings tab
\* TikTokerSettingTab: the slider's onChange assigns this.plugin.settings.urlTimeout
\* and saves.  The tab can be used whenever the event loop is free, also while a
\* batch awaits an operation (the progress modal can be closed, the run goes on).
ChangeSetting ==
  /\ \E value \in UrlTimeouts \ {settings.urlTimeout} :
       settings' = [settings EXCEPT !.urlTimeout = value]
  /\ UNCHANGED <<isMobile, files, folderExists, urls, processingQueue, results, processed,
                 pc, cur, abandoned, single, modal, picker, disc, tagging, naming, dating,
                 noticeThrows, obs>>

\* A batch run in which every race is won by the attempt, with the settings tab
\* in use.
NextSettings ==
  \/ StartBatch
  \/ Dequeue
  \/ InFlightStep
  \/ Finish
  \/ ChangeSetting

SpecSettings == Init /\ [][NextSettings]_vars

\* ------------------------------------------------------------- the clipboard action
\* disc.found is tikTokUrls, what extractTikTokUrls answered for the clipboard
\* text, by the urls' names: any list of distinct urls, or none.
FoundLists == PromptLists \cup {<<>>}

InitClipboard ==
  /\ settings \in [handlePrivateVideos : {"create-empty"}, urlTimeout : {DefaultUrlTimeout},
                   enableBulkProcessing : BOOLEAN, bypassModalForSingle : BOOLEAN]
  /\ isMobile = FALSE
  /\ files \in InitialVaults
  /\ folderExists = (files # <<>>)
  /\ urls = <<>>
  /\ processingQueue = <<>>
  /\ results = <<>>
  /\ processed = 0
  /\ pc = "idle"
  /\ cur = Idle
  /\ abandoned = {}
  /\ single = Idle
  /\ modal = NoModal
  /\ picker = NoPicker
  /\ disc \in [text : {<<>>}, calls : {<<>>}, found : FoundLists]
  /\ obs = Obs0
  /\ tagging = NoTags
  /\ naming = NoNaming
  /\ dating = NoDating
  /\ noticeThrows = FALSE

shouldShowBulkModal_BypassDecides(list) ==
  IF ~settings.enableBulkProcessing THEN FALSE
  ELSE IF Len(list) <= 1 /\ settings.bypassModalForSingle THEN FALSE
  ELSE TRUE

shouldShowBulkModal(list) ==
  IF ~settings.enableBulkProcessing THEN FALSE
  ELSE IF Len(list) <= 1 /\ settings.bypassModalForSingle THEN FALSE
  ELSE Len(list) > 1

\* processTikTokFromClipboard, used while no prompt is open and nothing was
\* started yet: no url found is answered by a notice;
\* else the selection prompt is opened on the urls found, or the first of
\* them is put to processTikTokUrl.
processTikTokFromClipboard ==
  /\ pc = "idle"
  /\ ~picker.open /\ ~picker.called
  /\ LET tikTokUrls == disc.found
     IN IF Len(tikTokUrls) = 0
        THEN /\ obs' = [obs EXCEPT !.notice = "Clipboard does not contain any valid TikTok URLs"]
             /\ UNCHANGED <<picker, files, folderExists, single, pc>>
        ELSE IF shouldShowBulkModal(tikTokUrls)
        THEN /\ picker' = [kind |-> "bulk", open |-> TRUE, given |-> tikTokUrls,
                           urls |-> tikTokUrls, checked |-> 1..Len(tikTokUrls),
                           called |-> FALSE, arg |-> <<>>]
             /\ UNCHANGED <<obs, files, folderExists, single, pc>>
        ELSE /\ SingleGoesOn(Start(tikTokUrls[1], FALSE, "note",
                                   [Fx(files, folderExists) EXCEPT
                                      !.notice = "Processing TikTok URL..."]), "")
             /\ UNCHANGED picker
  /\ UNCHANGED <<settings, isMobile, urls, processingQueue, results, processed, cur,
                 abandoned, modal, disc, tagging, naming, dating, noticeThrows>>

\* The action, the selection prompt, and what they start: the single-item
\* pipeline or the entry of the batch.
NextClipboard ==
  \/ processTikTokFromClipboard
  \/ ToggleCheckbox
  \/ ProcessSelected
  \/ CancelPrompt
  \/ StartBatch
  \/ SingleStep

SpecClipboard == InitClipboard /\ [][NextClipboard]_vars

\* ------------------------------------------------------------- the action used again
\* The ribbon icon and the command call processTikTokFromClipboard whenever
\* they are used; with several urls found the selection prompt's submit calls
\* processBulkTikToks(selectedUrls).  Neither tests whether a batch is running.
\* The model follows MaxReentries such entries after the first batch was
\* started, and then the activation entered last: the loop of the activation
\* before it is not followed further, the attempt it awaited keeps running.
MaxReentries == 1

ClipboardBatch ==
  /\ pc \in {"loop", "await", "done"}
  /\ obs.reentries < MaxReentries
  /\ \E selectedUrls \in Worklists :
       /\ urls' = selectedUrls
       /\ processingQueue' = selectedUrls
  /\ results' = <<>>
  /\ processed' = 0
  /\ pc' = "loop"
  /\ cur' = Idle
  /\ abandoned' = IF pc = "await" THEN abandoned \cup {cur} ELSE abandoned
  /\ obs' = [obs EXCEPT !.reentries = @ + 1]
  /\ UNCHANGED <<settings, isMobile, files, folderExists, single, modal, picker, disc,
                 tagging, naming, dating, noticeThrows>>

\* A batch run in which every race is won by the attempt, with the clipboard
\* action in use.
NextReentry ==
  \/ StartBatch
  \/ Dequeue
  \/ InFlightStep
  \/ AbandonedStep
  \/ Finish
  \/ ClipboardBatch

SpecReentry == Init /\ [][NextReentry]_vars

\* ------------------------------------------------------------- claims
Last(seq) == seq[Len(seq)]
Appended == Len(results') = Len(results) + 1
Attempts == (IF pc = "await" THEN {cur} ELSE {}) \cup abandoned
FsStages == {"mkdir", "create", "delete", "recreate", "mdelete", "mcreate"}

\* C1: if every attempt of a run ends in 'Processing timeout', the run still
\* ends: eventually the loop is done (queue empty, summary emitted), unless some
\* attempt ended otherwise (a result that is not a timeout failure exists).
C1_AllTimeoutsTerminate ==
  <>(pc = "done" \/ \E i \in 1..Len(results) : results[i].error # "Processing timeout")

\* C2: a run over N urls pushes a timed-out url back at most 2*N times.
C2_RequeueBound == obs.requeued <= 2 * Len(urls)

\* C3: in batch mode no attempt ever waits on the duplicate prompt, and an
\* attempt that answers with a file name for a path that held a file answers
\* duplicate-pending (duplicate = true, success = false).
C3_BatchNeverPrompts ==
  /\ [](\A p \in Attempts : p.bulk => p.stage # "prompt")
  /\ [][(Appended /\ Last(results').fileName # NoName
           /\ FilePath(Last(results').fileName, 0) \in DOMAIN files)
          => (Last(results').duplicate /\ ~Last(results').success)]_vars

C3_Witness ==
  /\ Len(results) > 0
  /\ Last(results).duplicate
  /\ FilePath(Last(results).fileName, 0) \in DOMAIN files

C5_DuplicateTakesFirstFree ==
  /\ [][(single.stage = "prompt" /\ single'.stage = "create")
          => /\ single.path \in DOMAIN files
             /\ single.path[2] = 0
             /\ single'.path[1] = single.path[1]
             /\ single'.path[2] >= 1
             /\ single'.path \notin DOMAIN files
             /\ \A j \in 1..(single'.path[2] - 1) : <<single.path[1], j>> \in DOMAIN files
             /\ files' = files]_vars
  /\ [][(single.stage = "create" /\ single.path[2] >= 1)
          => /\ \A q \in DOMAIN files : q \in DOMAIN files' /\ files'[q] = files[q]
             /\ DOMAIN files' \subseteq DOMAIN files \cup {single.path}]_vars

C5_Witness ==
  /\ pc = "single-done"
  /\ obs.notice = "Created"
  /\ \A k \in 0..2 : <<SingleName, k>> \in DOMAIN files
  /\ files[<<SingleName, 0>>] = OldNote
  /\ files[<<SingleName, 1>>] = OldNote
  /\ files[<<SingleName, 2>>] # OldNote

\* C6: an attempt that lost the race issues no further network request and no
\* further file-store operation.
C6_NoLateOperation == \A p \in abandoned : p.late = "none"

\* C7: every result is counted in exactly one of created, duplicate-pending,
\* skipped-private, failed.
Buckets(r) ==
  (IF IsSuccessful(r) THEN {"created"} ELSE {})
    \cup (IF IsDuplicate(r) THEN {"duplicate"} ELSE {})
    \cup (IF IsSkippedPrivate(r) THEN {"private"} ELSE {})
    \cup (IF IsFailed(r) THEN {"failed"} ELSE {})

C7_OneBucket == \A j \in 1..Len(results) : Cardinality(Buckets(results[j])) = 1

\* C8: under policy 'skip' a private item is answered skipped-private (not
\* created, not duplicate, not failed) by a step that leaves the vault as it is,
\* and no attempt resolved as private ever waits on a file-store operation.
C8_SkipTouchesNoFile ==
  /\ [](settings.handlePrivateVideos = "skip" =>
          \A p \in Attempts : p.branch = "private" => p.stage \notin FsStages)
  /\ [][(settings.handlePrivateVideos = "skip" /\ Appended /\ Last(results').isPrivate)
          => /\ Buckets(Last(results')) = {"private"}
             /\ cur.stage \notin FsStages
             /\ files' = files /\ folderExists' = folderExists]_vars

C8_Witness ==
  /\ settings.handlePrivateVideos = "skip"
  /\ Len(results) > 0
  /\ Last(results).isPrivate

\* C9: when the store's create fails for the awaited item, whatever its kind,
\* the item's result is in the failed bucket.
C9_CreateFailureIsFailed ==
  [][(pc = "await" /\ cur.stage = "create" /\ Appended /\ files' = files)
       => IsFailed(Last(results'))]_vars

\* C10: in the results collaborator the action 'duplicate' never waits on a
\* duplicate prompt and never on a delete or on the create of a replacement.
C10_DuplicateActionNeverPrompts ==
  modal.job.then = "duplicate" => modal.job.stage \notin {"prompt", "delete", "recreate"}

\* C11: pressing retry starts nothing by itself; the delayed re-entry of
\* processBulkTikToks gets exactly the urls of the finished run's results that
\* are neither created nor duplicate-pending nor skipped-private, in result
\* order, and none of the urls with such an outcome.
C11_RetryTakesFailedOnly ==
  /\ [][(pc = "done" /\ pc' # "done") => (pc' = "retry-wait" /\ results' = results
                                            /\ processingQueue' = processingQueue)]_vars
  /\ [][(pc = "retry-wait" /\ pc' # "retry-wait")
          => /\ pc' = "loop"
             /\ urls' = UrlsOf(SelectSeq(results,
                           LAMBDA r : ~r.success /\ ~r.duplicate /\ ~r.isPrivate))
             /\ processingQueue' = urls'
             /\ \A j \in 1..Len(results) :
                  (results[j].success \/ results[j].duplicate \/ results[j].isPrivate)
                    => \A i \in 1..Len(urls') : urls'[i] # results[j].url]_vars

C11_Witness ==
  /\ pc = "loop"
  /\ results = <<>>
  /\ urls = <<"p1">>
  /\ processingQueue = urls
  /\ \E q \in DOMAIN files : files[q] = <<"v1", "T">>

\* C12: fetchTikTokData never throws, and the record it returns has createdDate
\* and postedDate both YYYY-MM-DD texts, whatever the url, the platform and the
\* outcome of each network call; it returns no record only for content it
\* classified as private under policy 'skip'.
IsoDays == {"fromId", "lastModified", "today"}

C13_ExpandNeverThrows ==
  /\ []((single.url \in Urls /\ ~UrlShape[single.url].short)
          => (single.stage \notin {"expand", "expand2"} /\ single.u = single.url))
  /\ [][(single.stage \in {"expand", "expand2"} /\ obs'.last \in {"fail", "abort"})
          => (single'.stage # "idle" /\ single'.u = single.u)]_vars

C13_Witness ==
  /\ single.url = "s1"
  /\ single.u = "s1"
  /\ single.stage = "oembed"
  /\ obs.last = "abort"

\* C14: the loop takes the url at the head of the queue; a result is added at
\* the end of results and is the awaited url's; a url put back goes behind all
\* urls still queued; as long as nothing was put back, the urls of the results
\* are the worklist's, in its order.
C14_FifoOrder ==
  /\ [][(pc = "loop" /\ pc' = "await")
          => (cur'.url = Head(processingQueue)
              /\ processingQueue' = Tail(processingQueue))]_vars
  /\ [][(pc = "await" /\ Appended)
          => (SubSeq(results', 1, Len(results)) = results
              /\ Last(results').url = cur.url
              /\ processingQueue' = processingQueue)]_vars
  /\ [][(pc = "await" /\ processingQueue' # processingQueue)
          => (processingQueue' = Append(processingQueue, cur.url)
              /\ results' = results)]_vars
  /\ [](obs.requeued = 0
          => \A i \in 1..Len(results) : i <= Len(urls) /\ results[i].url = urls[i])

C14_Witness ==
  /\ pc = "done"
  /\ Len(urls) = 2
  /\ obs.requeued = 1
  /\ Len(results) = 2
  /\ results[1].url = urls[2]
  /\ results[2].url = urls[1]

\* C15: the summary notice is emitted once per run, by the step that finds the
\* queue empty, when every url of the worklist has its result; from the entry
\* of the run to that step no per-item notice is shown.
C15_OneSummaryNoItemNotice ==
  /\ obs.summaries = (IF pc = "done" THEN 1 ELSE 0)
  /\ obs.summaries > 0 =>
       /\ processingQueue = <<>>
       /\ \A i \in 1..Len(urls) : \E j \in 1..Len(results) : results[j].url = urls[i]
  /\ obs.notice = ""

C15_Witness ==
  /\ pc = "done"
  /\ obs.summaries = 1
  /\ settings.handlePrivateVideos = "show-error"
  /\ Len(results) = 1
  /\ results[1].isPrivate /\ results[1].success
  /\ obs.requeued > 0

\* C16: a createTikTokNote that ends on a collision without creating leaves
\* every file as it was: the step that finds the collision (and opens the
\* prompt in single mode, or answers duplicate-pending in batch mode) changes no
\* file, and neither does the step in which the prompt is answered 'skip'.
C16_CollisionLeavesFiles ==
  /\ [][(single.stage # "prompt" /\ single'.stage = "prompt")
          => (files' = files /\ folderExists' = folderExists)]_vars
  /\ [][(single.stage = "prompt" /\ single'.stage = "idle" /\ obs'.last = "skip")
          => (files' = files /\ folderExists' = folderExists)]_vars
  /\ [][(Appended /\ Last(results').duplicate)
          => (files' = files /\ folderExists' = folderExists)]_vars
  /\ [](single.stage = "prompt" => single.path \in DOMAIN files)

C16_Witness ==
  /\ pc = "single-done"
  /\ obs.last = "skip"
  /\ obs.notice = "File creation skipped"
  /\ files = (FilePath(<<"A", "T">>, 0) :> OldNote)

\* C17: a selection prompt never hands an empty list to its submit callback.
C17_NeverSubmitsEmpty == picker.called => Len(picker.arg) > 0

\* C18: two calls of extractTikTokUrls on a text give the same sequence; the
\* sequence holds no url twice; its urls stand in the order of their first
\* occurrence in the text; a text in which no pattern prefix is followed by a
\* character of the class gives the empty sequence.
\* A url occurs at i when a pattern prefix stands at i that no earlier match
\* has swallowed, and the url is the text from i to the end of the class run.
StartsMatch(text, i) ==
  /\ text[i] \in {"P", "Q", "U"}
  /\ i < Len(text) /\ text[i + 1] # " "
  /\ ~\E p \in 1..(i - 1) : text[p] \in {"P", "Q", "U"}
                             /\ \A q \in (p + 1)..i : text[q] # " "

Occurs(url, text, i) ==
  /\ StartsMatch(text, i)
  /\ i + Len(url) - 1 <= Len(text)
  /\ SubSeq(text, i, i + Len(url) - 1) = url
  /\ \A q \in i..(i + Len(url) - 1) : text[q] # " "
  /\ (i + Len(url) - 1 = Len(text) \/ text[i + Len(url)] = " ")

FirstAt(url, text) == CHOOSE i \in 1..Len(text) : Occurs(url, text, i)
                                                   /\ \A j \in 1..(i - 1) : ~Occurs(url, text, j)

C19_NoTrailingPunctuation ==
  \A c \in 1..Len(disc.calls) : \A i \in 1..Len(disc.calls[c]) :
     Last(disc.calls[c][i]) \notin {" ", "."}

\* C20: every url returned is the platform domain with the /@handle/video/<digits>
\* path, or a short link (vm.tiktok.com/..., tiktok.com/t/...).
C20_RecognizedShape ==
  \A c \in 1..Len(disc.calls) : \A i \in 1..Len(disc.calls[c]) :
     LET url == disc.calls[c][i]
     IN \/ url[1] = "Q"
        \/ (url[1] = "P" /\ url[2] \in {"v", "t"})

\* C21: the hashtags of a record built from a metadata answer hold no element
\* twice, whatever the title.
C21_HashtagsDistinct ==
  tagging.built =>
    \A i, j \in 1..Len(tagging.hashtags) : i # j => tagging.hashtags[i] # tagging.hashtags[j]

\* C22: the name generateFileName gives holds none of the placeholders
\* {{author}}, {{date}}, {{videoId}}, {{description}}, {{title}}, and the text put
\* in for {{author}} holds no '@' and no '#'.
C22_NoResidualPlaceholder ==
  naming.done =>
    /\ \A i \in 1..Len(naming.out) : naming.out[i] \notin Placeholders
    /\ \A i \in 1..Len(naming.sub) : naming.sub[i] \notin {"@", "#"}

\* C23: in the name of an item of a batch the placeholder {{index}} is replaced
\* (by the item's number in the batch): it is not left in the name.
C23_IndexReplaced ==
  naming.done => \A i \in 1..Len(naming.out) : naming.out[i] # "{{index}}"

\* C24: a short link whose HEAD request succeeds is expanded to the final url
\* of the redirect, on the desktop and on the mobile transport alike.
C24_BackendsExpandAlike ==
  [][(single.stage = "expand" /\ obs'.last = "ok") => single'.u \in RedirectTargets]_vars

\* C25: for an identifier in a /video/ url whose upper 32 bits are a timestamp
\* before 2010-01-01 or at or after 2030-01-01, the date is not taken from the
\* identifier: the HEAD request is issued, and when it fails or brings no
\* last-modified header the date is the current date.
OutOfRange(id) == id.hi < MinTimestamp \/ id.hi >= MaxTimestamp

C25_OutOfRangeFallsThrough ==
  /\ [][(dating.stage = "idle" /\ dating'.stage # "idle" /\ dating.seg = "video"
           /\ OutOfRange(dating.id))
          => (dating'.stage = "head" /\ dating'.heads = 1)]_vars
  /\ []((dating.stage = "done" /\ dating.seg = "video" /\ OutOfRange(dating.id))
          => /\ dating.posted.by # "id"
             /\ dating.last \in {"fail", "noHeader"} => dating.posted.by = "clock")

C25_Witness ==
  /\ dating.stage = "done"
  /\ dating.seg = "video"
  /\ dating.id.hi = MaxTimestamp
  /\ dating.last = "fail"
  /\ dating.posted.by = "clock"

\* C26: for an identifier (in a /video/ or a /photo/ url) whose upper 32 bits
\* are a timestamp t with 1262304000 <= t < 1893456000, the posted date is the
\* calendar day of t and no HEAD request is issued.
C26_InRangeDecodes ==
  (dating.stage # "idle" /\ dating.seg \in {"video", "photo"}
     /\ MinTimestamp <= dating.id.hi /\ dating.id.hi < MaxTimestamp)
    => /\ dating.heads = 0
       /\ dating.posted = [by |-> "id", day |-> DayOf(dating.id.hi)]

\* C27: while a batch run is in progress the settings are not modified, and
\* every race timer of the run is armed with one and the same urlTimeout.
C27_SettingsFixedDuringRun ==
  /\ [][(pc \in {"loop", "await"}) => (settings' = settings)]_vars
  /\ [](Cardinality(obs.timers) <= 1)

\* C28: under policy 'show-error', when the notice of handlePrivateVideo throws,
\* fetchTikTokData does not end in a throw: it still returns the private record.
C28_NoticeFailureContained ==
  (noticeThrows /\ settings.handlePrivateVideos = "show-error") => pc # "single-done"

\* C29: in the single-item flow under policy 'skip', the step in which the
\* resolver classifies the content as private (and so yields no record) ends the
\* item without a file-store operation and without the failure notice.
C29_SkipOmitsItem ==
  [][(settings.handlePrivateVideos = "skip" /\ single'.stage = "idle"
        /\ \/ (single.stage = "date" /\ single.branch = "private")
           \/ (single.stage = "oembed" /\ obs'.last = "http403"))
       => (files' = files /\ folderExists' = folderExists
           /\ obs'.notice # "Failed to process TikTok URL")]_vars

\* C30: the resolver takes the fallback branch only when the metadata
\* request was aborted (the timeout is an abort).
C30_FallbackOnlyOnAbort ==
  [][(single.stage = "oembed" /\ single'.branch = "fallback") => obs'.last = "abort"]_vars

\* C31: the render functions leave the record as it was constructed: after any
\* sequence of calls of generateFileName, generateNoteTitle and
\* generateNoteContent its description and its hashtags are those built from
\* the metadata answer.
C31_RenderLeavesRecord ==
  tagging.built =>
    /\ tagging.description = DescriptionOf(tagging.title)
    /\ tagging.hashtags = extractHashtags(tagging.title, 1)

C31_Witness ==
  /\ tagging.renders = MaxRenders
  /\ tagging.out.kind = "content"
  /\ tagging.hashtags # <<>>
  /\ tagging.out.text # tagging.description

\* C32: at every point of a batch run over N urls, the results recorded, the
\* urls queued and the url dequeued but not yet classified add up to N; so
\* once the run is over every url of the worklist has exactly one result.
C32_WorkConserved ==
  /\ pc \in {"loop", "await", "done"} =>
       Len(results) + Len(processingQueue) + (IF pc = "await" THEN 1 ELSE 0) = Len(urls)
  /\ pc = "done" =>
       \A k \in 1..Len(urls) :
         Cardinality({j \in 1..Len(results) : results[j].url = urls[k]}) = 1

C32_Witness ==
  /\ pc = "done"
  /\ Len(urls) = MaxUrls
  /\ obs.requeued > 0
  /\ \E j \in 1..Len(results) : ~results[j].success

\* C33: a note is written during a batch run for a url only if the url's recorded
\* outcome is created: a url reported as pending duplicate or as failed has no
\* note written by the run, an attempt that timed out included.  (A note's
\* content names the resolved url, so the urls compared are those of a worklist
\* without short links.)
C33_NoteOnlyForCreated ==
  (\A k \in 1..Len(urls) : ~IsShortLink(urls[k])) =>
    \A j \in 1..Len(results) :
      (IsDuplicate(results[j]) \/ IsFailed(results[j])) =>
        ~\E q \in DOMAIN files : files[q] # OldNote /\ files[q][1] = results[j].url

\* C34: at most one batch run is active at a time: processBulkTikToks is not
\* entered while the run before it still has queued or in-flight items.
C34_OneRunAtATime ==
  [][(obs'.reentries > obs.reentries) =>
       (pc \notin {"loop", "await"} /\ Len(processingQueue) = 0)]_vars

\* C35: when the single-item 'replace' fails in its create step, the file that
\* was at the target path before is still there: a failed replace never
\* leaves the path without a note.
C35_FailedReplaceKeepsNote ==
  [][(pc = "single" /\ single.stage = "recreate" /\ single' # single
        /\ obs'.last = "fail")
       => single.path \in DOMAIN files']_vars

\* C36: in the results collaborator, 'replace' for a pending duplicate ends
\* with the newly rendered note at the path reported as colliding (the item's
\* fileName) and with no file created at any other path, although the
\* metadata is resolved again.
C36_ReplaceAtReportedPath ==
  [][(pc = "done" /\ modal.job.then = "replace" /\ modal.job.stage = "mcreate"
        /\ modal'.job.stage = "idle" /\ files' # files)
       => \E i \in 1..Len(modal.duplicates) :
            /\ modal.duplicates[i].url = modal.job.url
            /\ modal.job.path = FilePath(modal.duplicates[i].fileName, 0)
            /\ DOMAIN files' = DOMAIN files \cup {modal.job.path}
            /\ files'[modal.job.path] = generateNoteContent(modal.job.data)]_vars

\* C37: in the results collaborator an item leaves the list of pending
\* duplicates only after its action completed without error (a delete or a
\* create that failed leaves it listed, and so does a throw), and a bulk action
\* closes the collaborator only when the list has become empty.
C37_ListedUntilDone ==
  [][/\ (Len(modal'.duplicates) < Len(modal.duplicates)) =>
          /\ modal.job.stage # "delete"
          /\ modal.job.stage \in {"create", "recreate", "mcreate"} =>
               (files' # files /\ modal.job.path \in DOMAIN files')
     /\ (modal.job.stage # "idle" /\ modal'.job.stage = "idle"
           /\ obs'.notice = "Failed to process duplicate") =>
          modal'.duplicates = modal.duplicates
     /\ (modal.bulk.action # "" /\ modal.open /\ ~modal'.open) =>
          Len(modal'.duplicates) = 0]_vars

RECURSIVE IsSubsequence(_, _)
IsSubsequence(a, b) ==
  IF a = <<>> THEN TRUE
  ELSE IF b = <<>> THEN FALSE
  ELSE IF a[1] = b[1] THEN IsSubsequence(Tail(a), Tail(b))
  ELSE IsSubsequence(a, Tail(b))

\* C38: in MultiUrlModal, each Remove click removes exactly the clicked entry
\* from the prompt's list, the array given to the constructor is never
\* changed, and the list passed to submit is a subsequence of it (order kept).
C38_ImportSubsequence ==
  [][picker.kind = "multi" =>
       /\ picker'.given = picker.given
       /\ picker'.urls # picker.urls =>
            \E i \in 1..Len(picker.urls) :
              /\ Len(picker'.urls) = Len(picker.urls) - 1
              /\ \A j \in 1..Len(picker'.urls) :
                   picker'.urls[j] = IF j < i THEN picker.urls[j] ELSE picker.urls[j + 1]
       /\ picker'.called => IsSubsequence(picker'.arg, picker'.given)]_vars

C38_Witness ==
  /\ picker.kind = "multi"
  /\ picker.called
  /\ Len(picker.given) = 3
  /\ picker.arg = <<picker.given[2]>>

====
